---- MODULE Spec2Model ----
(***************************************************************************)
(* MathTuro: the client-side data operations of the learning-management    *)
(* application (student.js, teacher.js, uploads.js, admin.js, auth.js,     *)
(* modules.js) over the tables of the hosted backend.                      *)
(*                                                                         *)
(* A handler is one action: its remote calls are taken in program order,   *)
(* each with an outcome "ok", "err" (the call resolves with {error}) or    *)
(* "throw" (the promise rejects).  markLessonComplete is split at its      *)
(* await between the existence check and the write, because two of its     *)
(* invocations are interleaved there.  Row-level-security policies are     *)
(* not modelled: the tables carry the column and uniqueness constraints    *)
(* of the README schema only.                                              *)
(***************************************************************************)
EXTENDS Integers, Sequences, FiniteSets, TLC

----------------------------------------------------------------------------
(* Bounds of the model *)

\* quiz_submissions rows that can exist at once
MaxSubs == 1
\* values the clock (new Date(), Date.now()) can take
MaxTime == 1
\* lesson_progress rows that can exist at once
MaxProgress == 2
\* markLessonComplete invocations that can be in flight at once
MaxInFlight == 2
\* lessons a module can have in a progress report
MaxLessons == 40
\* lessons the other module can have
MaxOtherLessons == 1
\* handler invocations in a behaviour of the specification of all operations
MaxOps == 6
\* milliseconds the page's clock advances in one step
Tick == 150000
\* steps the page's clock advances
MaxClock == 4
\* interval timers the page can hold
MaxTimers == 2
\* session-poll callbacks that can await getSession at once
MaxPolls == 2
\* redirects to the login page that can be scheduled at once
MaxRedirects == 2
\* lessons createLesson can add to the table
MaxCreated == 2

----------------------------------------------------------------------------
(* Strings are sequences of one-character strings. *)

\* null / undefined
Null == <<"null">>

WhiteSpace == {" ", "\t"}

DigitChars == <<"0", "1", "2", "3", "4", "5", "6", "7", "8", "9",
                "a", "b", "c", "d", "e", "f">>

IsDigit(c, radix) == \E i \in 1..radix : DigitChars[i] = c

DigitVal(c) == (CHOOSE i \in 1..16 : DigitChars[i] = c) - 1

RECURSIVE SkipWhiteSpace(_)
SkipWhiteSpace(s) ==
  IF s # <<>> /\ Head(s) \in WhiteSpace THEN SkipWhiteSpace(Tail(s)) ELSE s

RECURSIVE DropTrailingWhiteSpace(_)
DropTrailingWhiteSpace(s) ==
  IF s # <<>> /\ s[Len(s)] \in WhiteSpace
  THEN DropTrailingWhiteSpace(SubSeq(s, 1, Len(s) - 1))
  ELSE s

\* String.prototype.trim
Trim(s) == DropTrailingWhiteSpace(SkipWhiteSpace(s))

\* the numeric value of the longest prefix of s made of digits of the radix;
\* n counts the digits taken
RECURSIVE DigitsPrefix(_, _, _, _)
DigitsPrefix(s, radix, acc, n) ==
  IF s # <<>> /\ IsDigit(Head(s), radix)
  THEN DigitsPrefix(Tail(s), radix, acc * radix + DigitVal(Head(s)), n + 1)
  ELSE [v |-> acc, n |-> n]

NaN == [nan |-> TRUE, v |-> 0]

\* parseInt(string) with no radix argument: leading white space is skipped,
\* a sign is taken, a 0x prefix selects radix 16, and the digits that follow
\* are the value; no digit at all is NaN
ParseInt(str) ==
  LET s1   == SkipWhiteSpace(str)
      neg  == s1 # <<>> /\ Head(s1) = "-"
      s2   == IF s1 # <<>> /\ Head(s1) \in {"-", "+"} THEN Tail(s1) ELSE s1
      hex  == Len(s2) >= 2 /\ s2[1] = "0" /\ s2[2] \in {"x", "X"}
      s3   == IF hex THEN SubSeq(s2, 3, Len(s2)) ELSE s2
      d    == DigitsPrefix(s3, IF hex THEN 16 ELSE 10, 0, 0)
  IN  IF str = Null \/ d.n = 0 THEN NaN
      ELSE [nan |-> FALSE, v |-> IF neg THEN 0 - d.v ELSE d.v]

----------------------------------------------------------------------------
(* Numbers are IEEE 754 doubles.  A positive double is its 53-bit           *)
(* significand and the exponent e of the significand's last bit: the value  *)
(* is significand * 2^e.  The significand is held in three limbs,           *)
(* hi * 2^36 + mid * 2^18 + lo, with hi of 17 bits and mid, lo of 18.       *)
(* Every result is rounded to nearest, ties to even.                        *)

LimbBits == 18
HiBits   == 17

RECURSIVE Pow2(_)
Pow2(n) == IF n = 0 THEN 1 ELSE 2 * Pow2(n - 1)

Limb == Pow2(LimbBits)

Zero == [hi |-> 0, mid |-> 0, lo |-> 0, e |-> 0]

\* the number of binary digits of a natural number
RECURSIVE BitLength(_)
BitLength(n) == IF n = 0 THEN 0 ELSE 1 + BitLength(n \div 2)

\* round the exact value (the significand, then a guard bit, then a nonzero
\* rest when sticky) * 2^e to a double
RoundToDouble(hi, mid, lo, guard, sticky, e) ==
  LET up  == guard = 1 /\ (sticky \/ lo % 2 = 1)
      lo1 == lo + 1
      mid1 == IF lo1 = Limb THEN mid + 1 ELSE mid
      hi1  == IF lo1 = Limb /\ mid1 = Limb THEN hi + 1 ELSE hi
  IN  IF ~up THEN [hi |-> hi, mid |-> mid, lo |-> lo, e |-> e]
      ELSE IF hi1 = Pow2(HiBits)
      THEN [hi |-> Pow2(HiBits - 1), mid |-> 0, lo |-> 0, e |-> e + 1]
      ELSE [hi |-> hi1, mid |-> mid1 % Limb, lo |-> lo1 % Limb, e |-> e]

\* the least k with a * 2^k >= d, and a * 2^k
RECURSIVE Normalise(_, _, _)
Normalise(a, d, k) == IF a >= d THEN [a |-> a, k |-> k] ELSE Normalise(2 * a, d, k + 1)

\* a / d for integers 0 <= a <= d, d > 0
Divide(a, d) ==
  IF a = 0 THEN Zero
  ELSE LET n   == Normalise(a, d, 0)
           h   == n.a * Pow2(HiBits - 1)
           m   == (h % d) * Limb
           l   == (m % d) * Limb
           g   == (l % d) * 2
       IN  RoundToDouble(h \div d, m \div d, l \div d, g \div d, g % d # 0,
                         0 - n.k - (HiBits - 1) - 2 * LimbBits)

\* x * n for a double x and a natural n < 2^7
Multiply(x, n) ==
  IF x = Zero \/ n = 0 THEN Zero
  ELSE LET l   == x.lo * n
           m   == x.mid * n + (l \div Limb)
           h   == x.hi * n + (m \div Limb)
           s   == BitLength(h) - HiBits
           lo0 == l % Limb
           mid0 == m % Limb
           cut == Pow2(s)
           up  == Pow2(LimbBits - s)
       IN  IF s = 0 THEN [hi |-> h, mid |-> mid0, lo |-> lo0, e |-> x.e]
           ELSE RoundToDouble(h \div cut,
                              (h % cut) * up + (mid0 \div cut),
                              (mid0 % cut) * up + (lo0 \div cut),
                              (lo0 % cut) \div Pow2(s - 1),
                              (lo0 % cut) % Pow2(s - 1) # 0,
                              x.e + s)

\* Math.round of a double 0 <= x < 2^16: the nearest integer, a tie going up
MathRound(x) ==
  IF x = Zero THEN 0
  ELSE LET intBits == HiBits + 2 * LimbBits + x.e
       IN  IF intBits < 0 THEN 0
           ELSE IF intBits = 0 THEN 1
           ELSE (x.hi \div Pow2(HiBits - intBits))
                + ((x.hi \div Pow2(HiBits - intBits - 1)) % 2)

\* totalLessons > 0 ? Math.round((completedLessons / totalLessons) * 100) : 0
completionPercentage(completedLessons, totalLessons) ==
  IF totalLessons > 0
  THEN MathRound(Multiply(Divide(completedLessons, totalLessons), 100))
  ELSE 0

----------------------------------------------------------------------------
(* The backend's accounts and the values the handlers are called with *)

Students == {"s1", "s2"}
Teachers == {"t1"}
Admins   == {"a1"}
Accounts == Students \cup Teachers \cup Admins
\* the account createUser can add
NewAccounts == {"n1"}
Ids == Accounts \cup NewAccounts

\* user_metadata.role of the seeded auth accounts
SeedRole(id) ==
  IF id \in Students THEN "student"
  ELSE IF id \in Teachers THEN "teacher"
  ELSE IF id \in Admins THEN "admin" ELSE "none"

\* lesson ids are numbers
Lessons == {1}
Modules == {"M1"}
Times   == 1..MaxTime

\* localStorage has no 'user' item
NoUser == [id |-> "none", role |-> "none"]

\* the outcome of one remote call
Outcomes == {"ok", "err", "throw"}

\* what the score and total-items form fields can hold together
QuizForms ==
  { [score |-> <<>>,                total |-> <<"1">>],
    [score |-> <<"1">>,             total |-> <<"x">>],
    [score |-> <<"-", "1">>,        total |-> <<"1">>],
    [score |-> <<"1">>,             total |-> <<"0">>],
    [score |-> <<"2">>,             total |-> <<"1">>],
    [score |-> <<"0", "x", "2">>,   total |-> <<"1">>],
    [score |-> <<"0">>,             total |-> <<"1">>],
    [score |-> <<" ", "2", "x">>,   total |-> <<"2">>] }

\* what a teacher's comment can be
CommentInputs == { Null, <<>>, <<" ", "\t">>, <<"a">>, <<" ", "a", " ">> }

\* the comments approveQuizSubmission is called with (null by default)
ApproveComments == { Null, <<"a">> }

maxSize == 5242880

NoFile == [type |-> "none", size |-> 0]
Files ==
  { NoFile,
    [type |-> "image/png", size |-> maxSize],
    [type |-> "image/png", size |-> maxSize + 1],
    [type |-> "application/pdf", size |-> 1] }

\* screenshot_url is null
NoUrl == [student |-> "none", lesson |-> 0, time |-> 0, type |-> "none"]

allowedTypes == {"image/jpeg", "image/png", "image/webp", "image/gif"}

SubIds == 1..MaxSubs

\* cache keys ("" is a falsy key) and cached data
Keys == {"", "k"}
Data == {"d1", "d2"}
\* cache.get(key) is undefined
NoEntry == [data |-> "undefined", expiry |-> 0]
\* no setCache of the key is on record
NoSet == [data |-> "undefined", time |-> 0, ttl |-> 0]

----------------------------------------------------------------------------
VARIABLES
  user,              \* localStorage 'user' of this browser: the cached user, or NoUser
  session,           \* the backend's auth session of this browser: an id or "none"
  users,             \* users table: id -> role, or "norow"
  authUsers,         \* auth accounts: id -> user_metadata.role, or "none"
  quiz_submissions,  \* quiz_submissions table: a set of rows
  storage,           \* quiz-screenshots bucket: the set of stored paths
  lesson_progress,   \* lesson_progress table: a set of rows
  mlc,               \* the markLessonComplete invocations in flight
  modules,           \* modules table: the ids
  lessons,           \* lessons table: rows [id, module_id]
  notifications,     \* notifications table: a set of rows
  nOps,              \* handler invocations so far
  last,              \* the handler invocation that has just returned, or Call("none")
  clc,               \* the createLesson invocations in flight
  cache,             \* the page's cache Map: key -> {data, expiry}, or NoEntry
  clock,             \* Date.now() of the page
  sessionCheckInterval, \* the timer id the session monitor holds, 0 for null
  intervals,         \* the interval timers of the page that are active
  polls,             \* session-poll callbacks awaiting getSession
  redirects,         \* redirects to the login page that are scheduled
  latest,            \* history: key -> the latest setCache of the key that no
                     \* clearCache has removed since, or NoSet
  expired            \* history: a session poll has run handleSessionExpired and
                     \* no login has returned a user since

vars == <<user, session, users, authUsers, quiz_submissions, storage,
          lesson_progress, mlc, modules, lessons, notifications, nOps, last,
          clc, cache, clock, sessionCheckInterval, intervals, polls, redirects,
          latest, expired>>

cacheVars   == <<cache, clock, latest>>
monitorVars == <<sessionCheckInterval, intervals, polls, redirects>>
pageVars    == <<cacheVars, monitorVars, expired>>

authVars   == <<user, session, users, authUsers>>
quizVars   == <<quiz_submissions, storage>>
progVars   == <<lesson_progress, mlc>>
courseVars == <<modules, lessons>>

\* an invocation record: the handler, the cached user it read, its arguments,
\* the remote calls it issued in order (name and outcome), the alert or toast
\* it showed, its return value, whether an exception left it, and the
\* completion percentages it reported, each with the counts it was computed
\* from; was is the status the submission sid had when the handler was called
\* and value the user object it returned
Call(op) ==
  [op |-> op, user |-> NoUser, sid |-> 0, lesson |-> 0, id |-> "", score |-> Null,
   total |-> Null, file |-> NoFile, comment |-> Null, ret |-> "", alert |-> "",
   calls |-> <<>>, escaped |-> FALSE, pcts |-> {}, was |-> "", value |-> NoUser]

\* no handler has returned since the caller last took a result
Idle == last.op = "none"

IsStudent(u) == u # NoUser /\ u.role = "student"
\* a role check that any cached user passes
IsAnyone(u)  == u # NoUser
IsStaff(u)   == u # NoUser /\ u.role \in {"teacher", "admin"}

----------------------------------------------------------------------------
(* uploads.js *)

\* an upload with no check of the file's size
uploadQuizScreenshotAnySize(lessonId, studentId, file, now, out) ==
  LET path == [student |-> studentId, lesson |-> lessonId, time |-> now,
               type |-> file.type]
      fail(c) == [success |-> FALSE, url |-> NoUrl, calls |-> c,
                  storage |-> storage]
  IN  IF file = NoFile THEN fail(<<>>)
      ELSE IF file.type \notin allowedTypes THEN fail(<<>>)
      ELSE IF out = "ok" /\ path \notin storage
           THEN [success |-> TRUE, url |-> path, calls |-> << <<"storage.upload", "ok">> >>,
                 storage |-> storage \cup {path}]
           ELSE fail(<< <<"storage.upload", IF out = "ok" THEN "err" ELSE out>> >>)

\* uploadQuizScreenshot: {success, url} and the calls it issued; storage
\* refuses a path that exists (upsert: false)
uploadQuizScreenshot(lessonId, studentId, file, now, out) ==
  LET path == [student |-> studentId, lesson |-> lessonId, time |-> now,
               type |-> file.type]
      fail(c) == [success |-> FALSE, url |-> NoUrl, calls |-> c,
                  storage |-> storage]
  IN  IF file = NoFile THEN fail(<<>>)
      ELSE IF file.type \notin allowedTypes THEN fail(<<>>)
      ELSE IF file.size > maxSize THEN fail(<<>>)
      ELSE IF out = "ok" /\ path \notin storage
           THEN [success |-> TRUE, url |-> path, calls |-> << <<"storage.upload", "ok">> >>,
                 storage |-> storage \cup {path}]
           ELSE fail(<< <<"storage.upload", IF out = "ok" THEN "err" ELSE out>> >>)

----------------------------------------------------------------------------
(* student.js: quiz submissions *)

\* the validation without its comparison of score and total items
ValidateScoreNoGreater(numScore, numTotalItems) ==
  IF numScore.nan \/ numTotalItems.nan
  THEN "Score and total items must be numbers"
  ELSE IF numScore.v < 0 \/ numTotalItems.v <= 0
  THEN "Score must be at least 0 and total items must be greater than 0"
  ELSE ""

\* the validation without its lower bounds
ValidateScoreNoLower(numScore, numTotalItems) ==
  IF numScore.nan \/ numTotalItems.nan
  THEN "Score and total items must be numbers"
  ELSE IF numScore.v > numTotalItems.v
  THEN "Score cannot be greater than total items"
  ELSE ""

\* the input validation of submitQuizScore and updateQuizSubmission: the
\* alert shown, or "" when the input is accepted
ValidateScore(numScore, numTotalItems) ==
  IF numScore.nan \/ numTotalItems.nan
  THEN "Score and total items must be numbers"
  ELSE IF numScore.v < 0 \/ numTotalItems.v <= 0
  THEN "Score must be at least 0 and total items must be greater than 0"
  ELSE IF numScore.v > numTotalItems.v
  THEN "Score cannot be greater than total items"
  ELSE ""

\* a fresh primary key
NewSubId == CHOOSE i \in SubIds : \A r \in quiz_submissions : r.id # i

\* a row inserted with a status of its own
NewSubmissionSubmitted(studentId, lessonId, numScore, numTotalItems, screenshotUrl) ==
  [id |-> NewSubId, student_id |-> studentId, lesson_id |-> lessonId,
   score |-> numScore, total_items |-> numTotalItems,
   screenshot_url |-> screenshotUrl, status |-> "submitted",
   teacher_comment |-> Null, reviewed_by |-> "none", reviewed_at |-> 0]

\* the row submitQuizScore inserts
NewSubmission(studentId, lessonId, numScore, numTotalItems, screenshotUrl) ==
  [id |-> NewSubId, student_id |-> studentId, lesson_id |-> lessonId,
   score |-> numScore, total_items |-> numTotalItems,
   screenshot_url |-> screenshotUrl, status |-> "pending",
   teacher_comment |-> Null, reviewed_by |-> "none", reviewed_at |-> 0]

\* .update(fields).eq(...): the rows matched take their changed value
UpdateRows(matched, changed) ==
  { IF r \in matched THEN changed[r] ELSE r : r \in quiz_submissions }

\* The outcome of a remote call is drawn only when the call is issued: a handler
\* that returns with calls not issued requires their outcomes to be "ok".
NotIssued(outs) == outs \subseteq {"ok"}

submitQuizScore(u, lessonId, score, totalItems, screenshotFile, now, oUpload, oInsert) ==
  LET numScore      == ParseInt(score)
      numTotalItems == ParseInt(totalItems)
      invalid       == ValidateScore(numScore, numTotalItems)
      up   == uploadQuizScreenshot(lessonId, u.id, screenshotFile, now, oUpload)
      c    == [Call("submitQuizScore") EXCEPT !.user = u, !.lesson = lessonId,
                 !.score = score, !.total = totalItems, !.file = screenshotFile]
      \* student_id references users, lesson_id references lessons
      insOut == IF oInsert = "ok" /\ (users[u.id] = "norow"
                                      \/ \A l \in lessons : l.id # lessonId)
                THEN "err" ELSE oInsert
      ins  == <<"quiz_submissions.insert", insOut>>
      done(ret, alert, calls, unused) ==
        /\ NotIssued(unused)
        /\ last' = [c EXCEPT !.ret = ret, !.alert = alert, !.calls = calls]
  IN  /\ UNCHANGED <<authVars, progVars, courseVars, notifications>>
      /\ IF ~IsStudent(u)
         THEN /\ done("false", "You must be logged in as a student to submit quiz scores",
                      <<>>, {oUpload, oInsert})
              /\ UNCHANGED <<quiz_submissions, storage>>
         ELSE IF invalid # ""
         THEN /\ done("false", invalid, <<>>, {oUpload, oInsert})
              /\ UNCHANGED <<quiz_submissions, storage>>
         ELSE IF screenshotFile # NoFile /\ ~up.success
         THEN /\ done("false", "Failed to upload screenshot", up.calls,
                      IF up.calls = <<>> THEN {oUpload, oInsert} ELSE {oInsert})
              /\ storage' = up.storage
              /\ UNCHANGED quiz_submissions
         ELSE LET calls0 == IF screenshotFile # NoFile THEN up.calls ELSE <<>>
                  st     == IF screenshotFile # NoFile THEN up.storage ELSE storage
                  url    == IF screenshotFile # NoFile THEN up.url ELSE NoUrl
                  unused == IF screenshotFile # NoFile THEN {} ELSE {oUpload}
              IN  /\ storage' = st
                  /\ IF insOut = "ok"
                     THEN /\ Cardinality(quiz_submissions) < MaxSubs
                          /\ quiz_submissions' = quiz_submissions \cup
                               {NewSubmission(u.id, lessonId, numScore.v,
                                              numTotalItems.v, url)}
                          /\ done("true", "", Append(calls0, ins), unused)
                     ELSE /\ UNCHANGED quiz_submissions
                          /\ done("false", "Failed to submit quiz score. Please try again.",
                                  Append(calls0, ins), unused)

\* the status of the submission, "" when there is none
StatusOf(submissionId) ==
  IF \E r \in quiz_submissions : r.id = submissionId
  THEN (CHOOSE r \in quiz_submissions : r.id = submissionId).status
  ELSE ""

\* a resubmission that keeps the teacher's comment
requestQuizResubmissionKeepingComment(u, submissionId, oUpdate) ==
  LET c == [Call("requestQuizResubmission") EXCEPT !.user = u, !.sid = submissionId,
              !.was = StatusOf(submissionId)]
      match(r)  == r.id = submissionId /\ r.student_id = u.id
      change(r) == [r EXCEPT !.status = "pending"]
  IN  /\ UNCHANGED <<authVars, storage, progVars, courseVars, notifications>>
      /\ IsStudent(u) /\ oUpdate = "ok"
      /\ quiz_submissions' = UpdateRows({r \in quiz_submissions : match(r)},
                                            [r \in quiz_submissions |-> change(r)])
      /\ last' = [c EXCEPT !.ret = "true",
                    !.calls = << <<"quiz_submissions.update", "ok">> >>]

requestQuizResubmission(u, submissionId, oUpdate) ==
  LET c == [Call("requestQuizResubmission") EXCEPT !.user = u, !.sid = submissionId,
              !.was = StatusOf(submissionId)]
      match(r)  == r.id = submissionId /\ r.student_id = u.id
      change(r) == [r EXCEPT !.status = "pending", !.teacher_comment = Null]
      done(ret, alert, calls, unused) ==
        /\ NotIssued(unused)
        /\ last' = [c EXCEPT !.ret = ret, !.alert = alert, !.calls = calls]
  IN  /\ UNCHANGED <<authVars, storage, progVars, courseVars, notifications>>
      /\ IF ~IsStudent(u)
         THEN /\ done("false", "You must be logged in as a student to request resubmission",
                      <<>>, {oUpdate})
              /\ UNCHANGED quiz_submissions
         ELSE IF oUpdate = "ok"
         THEN /\ quiz_submissions' = UpdateRows({r \in quiz_submissions : match(r)},
                                            [r \in quiz_submissions |-> change(r)])
              /\ done("true", "", << <<"quiz_submissions.update", "ok">> >>, {})
         ELSE /\ UNCHANGED quiz_submissions
              /\ done("false", "Failed to request resubmission. Please try again.",
                      << <<"quiz_submissions.update", oUpdate>> >>, {})

updateQuizSubmission(u, submissionId, score, totalItems, screenshotFile, now, oSelect, oUpload, oUpdate) ==
  LET numScore      == ParseInt(score)
      numTotalItems == ParseInt(totalItems)
      invalid       == ValidateScore(numScore, numTotalItems)
      c    == [Call("updateQuizSubmission") EXCEPT !.user = u, !.sid = submissionId,
                 !.score = score, !.total = totalItems, !.file = screenshotFile]
      found == { r \in quiz_submissions : r.id = submissionId }
      \* .select('lesson_id').eq('id', submissionId).single(): no row is an error
      selOut == IF oSelect = "ok" /\ found = {} THEN "err" ELSE oSelect
      sel   == <<"quiz_submissions.select", selOut>>
      lessonOf == (CHOOSE r \in found : TRUE).lesson_id
      up(lessonId) == uploadQuizScreenshot(lessonId, u.id, screenshotFile, now, oUpload)
      upd   == <<"quiz_submissions.update", oUpdate>>
      match(r) == r.id = submissionId /\ r.student_id = u.id
      done(ret, alert, calls, unused) ==
        /\ NotIssued(unused)
        /\ last' = [c EXCEPT !.ret = ret, !.alert = alert, !.calls = calls]
      write(calls0, url, setUrl, unused) ==
        IF oUpdate = "ok"
        THEN /\ quiz_submissions' = UpdateRows({r \in quiz_submissions : match(r)},
                  [r \in quiz_submissions |->
                     [r EXCEPT !.score = numScore.v,
                               !.total_items = numTotalItems.v,
                               !.status = "pending",
                               !.teacher_comment = Null,
                               !.screenshot_url = IF setUrl THEN url ELSE @]])
             /\ done("true", "", Append(calls0, upd), unused)
        ELSE /\ UNCHANGED quiz_submissions
             /\ done("false", "Failed to update quiz submission. Please try again.",
                     Append(calls0, upd), unused)
  IN  /\ UNCHANGED <<authVars, progVars, courseVars, notifications>>
      /\ IF ~IsStudent(u)
         THEN /\ done("false", "You must be logged in as a student to update quiz submissions",
                      <<>>, {oSelect, oUpload, oUpdate})
              /\ UNCHANGED <<quiz_submissions, storage>>
         ELSE IF invalid # ""
         THEN /\ done("false", invalid, <<>>, {oSelect, oUpload, oUpdate})
              /\ UNCHANGED <<quiz_submissions, storage>>
         ELSE IF screenshotFile = NoFile
         THEN /\ UNCHANGED storage
              /\ write(<<>>, NoUrl, FALSE, {oSelect, oUpload})
         ELSE IF selOut # "ok"
         THEN /\ done("false", "Failed to update quiz submission. Please try again.",
                      <<sel>>, {oUpload, oUpdate})
              /\ UNCHANGED <<quiz_submissions, storage>>
         ELSE IF ~up(lessonOf).success
         THEN /\ done("false", "Failed to upload screenshot",
                      <<sel>> \o up(lessonOf).calls,
                      IF up(lessonOf).calls = <<>> THEN {oUpload, oUpdate} ELSE {oUpdate})
              /\ storage' = up(lessonOf).storage
              /\ UNCHANGED quiz_submissions
         ELSE /\ storage' = up(lessonOf).storage
              /\ write(<<sel>> \o up(lessonOf).calls, up(lessonOf).url, TRUE, {})

----------------------------------------------------------------------------
(* teacher.js: review of quiz submissions *)

approveQuizSubmission(u, submissionId, comment, now, oUpdate) ==
  LET c == [Call("approveQuizSubmission") EXCEPT !.user = u, !.sid = submissionId,
              !.comment = comment]
      match(r)  == r.id = submissionId
      change(r) == [r EXCEPT !.status = "approved", !.teacher_comment = comment,
                             !.reviewed_at = now, !.reviewed_by = u.id]
      done(ret, alert, calls, unused) ==
        /\ NotIssued(unused)
        /\ last' = [c EXCEPT !.ret = ret, !.alert = alert, !.calls = calls]
  IN  /\ UNCHANGED <<authVars, storage, progVars, courseVars, notifications>>
      /\ IF ~IsStaff(u)
         THEN /\ done("false", "You do not have permission to approve quiz submissions",
                      <<>>, {oUpdate})
              /\ UNCHANGED quiz_submissions
         ELSE IF oUpdate = "ok"
         THEN /\ quiz_submissions' = UpdateRows({r \in quiz_submissions : match(r)},
                                            [r \in quiz_submissions |-> change(r)])
              /\ done("true", "", << <<"quiz_submissions.update", "ok">> >>, {})
         ELSE /\ UNCHANGED quiz_submissions
              /\ done("false", "Failed to approve quiz submission",
                      << <<"quiz_submissions.update", oUpdate>> >>, {})

\* a check that only null fails
CommentNull(comment) == comment = Null

\* !comment || comment.trim() === ''
CommentMissing(comment) == comment = Null \/ comment = <<>> \/ Trim(comment) = <<>>

rejectQuizSubmission(u, submissionId, comment, now, oUpdate) ==
  LET c == [Call("rejectQuizSubmission") EXCEPT !.user = u, !.sid = submissionId,
              !.comment = comment]
      match(r)  == r.id = submissionId
      change(r) == [r EXCEPT !.status = "rejected", !.teacher_comment = Trim(comment),
                             !.reviewed_at = now, !.reviewed_by = u.id]
      done(ret, alert, calls, unused) ==
        /\ NotIssued(unused)
        /\ last' = [c EXCEPT !.ret = ret, !.alert = alert, !.calls = calls]
  IN  /\ UNCHANGED <<authVars, storage, progVars, courseVars, notifications>>
      /\ IF ~IsStaff(u)
         THEN /\ done("false", "You do not have permission to reject quiz submissions",
                      <<>>, {oUpdate})
              /\ UNCHANGED quiz_submissions
         ELSE IF CommentMissing(comment)
         THEN /\ done("false", "Please provide a comment explaining why you are rejecting this submission",
                      <<>>, {oUpdate})
              /\ UNCHANGED quiz_submissions
         ELSE IF oUpdate = "ok"
         THEN /\ quiz_submissions' = UpdateRows({r \in quiz_submissions : match(r)},
                                            [r \in quiz_submissions |-> change(r)])
              /\ done("true", "", << <<"quiz_submissions.update", "ok">> >>, {})
         ELSE /\ UNCHANGED quiz_submissions
              /\ done("false", "Failed to reject quiz submission",
                      << <<"quiz_submissions.update", oUpdate>> >>, {})

\* getPendingQuizSubmissions: [] or the rows read
getPendingQuizSubmissions(u, oSelect) ==
  LET c == [Call("getPendingQuizSubmissions") EXCEPT !.user = u]
      done(ret, calls, unused) ==
        /\ NotIssued(unused)
        /\ last' = [c EXCEPT !.ret = ret, !.calls = calls]
  IN  /\ UNCHANGED <<authVars, quizVars, progVars, courseVars, notifications>>
      /\ IF ~IsStaff(u) THEN done("[]", <<>>, {oSelect})
         ELSE IF oSelect = "ok"
         THEN done("data", << <<"quiz_submissions.select", "ok">> >>, {})
         ELSE done("[]", << <<"quiz_submissions.select", oSelect>> >>, {})

\* getSubmissionStats: the counts per status, all 0 when the read fails; it
\* reads localStorage nowhere
getSubmissionStats(u, oSelect) ==
  LET c == [Call("getSubmissionStats") EXCEPT !.user = u]
  IN  /\ UNCHANGED <<authVars, quizVars, progVars, courseVars, notifications>>
      /\ last' = [c EXCEPT !.ret = IF oSelect = "ok" THEN "stats" ELSE "zero stats",
                           !.calls = << <<"quiz_submissions.select", oSelect>> >>]

\* sendNotification(studentId, title, message); given says whether title and
\* message are both non-empty
sendNotification(u, studentId, given, oInsert) ==
  LET c == [Call("sendNotification") EXCEPT !.user = u, !.id = studentId]
      \* user_id references users
      insOut == IF oInsert = "ok" /\ users[studentId] = "norow" THEN "err" ELSE oInsert
      done(ret, alert, calls, unused) ==
        /\ NotIssued(unused)
        /\ last' = [c EXCEPT !.ret = ret, !.alert = alert, !.calls = calls]
  IN  /\ UNCHANGED <<authVars, quizVars, progVars, courseVars>>
      /\ IF ~IsStaff(u)
         THEN /\ done("false", "You do not have permission to send notifications",
                      <<>>, {oInsert})
              /\ UNCHANGED notifications
         ELSE IF ~given
         THEN /\ done("false", "Notification title and message are required",
                      <<>>, {oInsert})
              /\ UNCHANGED notifications
         ELSE IF insOut = "ok"
         THEN /\ notifications' = notifications \cup {[user_id |-> studentId, read |-> FALSE]}
              /\ done("true", "", << <<"notifications.insert", "ok">> >>, {})
         ELSE /\ UNCHANGED notifications
              /\ done("false", "Failed to send notification",
                      << <<"notifications.insert", insOut>> >>, {})

----------------------------------------------------------------------------
(* student.js: lesson progress *)

\* a primary key no lesson_progress row has
NewProgressId == CHOOSE i \in 1..MaxProgress : \A p \in lesson_progress : p.id # i

\* no constraint on the pair
PairFree(studentId, lessonId) == FALSE

\* unique(student_id, lesson_id): a row of that pair is in the table
PairTaken(studentId, lessonId) ==
  \E p \in lesson_progress : p.student_id = studentId /\ p.lesson_id = lessonId

\* markLessonComplete up to the await of its existence check.  slot names the
\* invocation (a tab of the browser).  The check's .single() resolves with
\* error PGRST116 when there is no row, which the handler lets pass.
markLessonCompleteCheck(u, lessonId, slot, oCheck) ==
  LET c == [Call("markLessonComplete") EXCEPT !.user = u, !.lesson = lessonId]
      found  == \E p \in lesson_progress : p.student_id = u.id /\ p.lesson_id = lessonId
      chkOut == IF oCheck = "ok" /\ ~found THEN "PGRST116" ELSE oCheck
      check  == <<"lesson_progress.select", chkOut>>
      fail(calls, unused) ==
        /\ NotIssued(unused)
        /\ last' = [c EXCEPT !.ret = "false", !.calls = calls,
                      !.alert = IF calls = <<>>
                                THEN "You must be logged in as a student to mark lessons as complete"
                                ELSE "Failed to mark lesson as complete. Please try again."]
        /\ UNCHANGED mlc
  IN  /\ UNCHANGED <<authVars, quizVars, lesson_progress, courseVars, notifications>>
      /\ \A i \in mlc : i.slot # slot
      /\ IF ~IsStudent(u) THEN fail(<<>>, {oCheck})
         ELSE IF chkOut \in {"err", "throw"} THEN fail(<<check>>, {})
         ELSE /\ mlc' = mlc \cup {[slot |-> slot, user |-> u, lesson |-> lessonId,
                                   existingProgress |-> chkOut = "ok"]}
              /\ UNCHANGED last

\* a write that inserts a row whether the check found one or not
markLessonCompleteWriteInserting(inv, now, oWrite) ==
  LET c == [Call("markLessonComplete") EXCEPT !.user = inv.user, !.lesson = inv.lesson]
      check == <<"lesson_progress.select",
                 IF inv.existingProgress THEN "ok" ELSE "PGRST116">>
      insOut == IF oWrite = "ok" /\ ( \/ PairTaken(inv.user.id, inv.lesson)
                                      \/ users[inv.user.id] = "norow"
                                      \/ \A l \in lessons : l.id # inv.lesson )
                THEN "err" ELSE oWrite
  IN  /\ UNCHANGED <<authVars, quizVars, courseVars, notifications>>
      /\ inv \in mlc
      /\ mlc' = mlc \ {inv}
      /\ last' = [c EXCEPT !.ret = IF insOut = "ok" THEN "true" ELSE "false",
                           !.calls = <<check, <<"lesson_progress.insert", insOut>> >>]
      /\ IF insOut = "ok"
         THEN /\ Cardinality(lesson_progress) < MaxProgress
              /\ lesson_progress' = lesson_progress \cup
                   {[id |-> NewProgressId, student_id |-> inv.user.id,
                     lesson_id |-> inv.lesson, completed |-> TRUE,
                     completed_at |-> now]}
         ELSE UNCHANGED lesson_progress

\* markLessonComplete from its write on, for the invocation inv in flight
markLessonCompleteWrite(inv, now, oWrite) ==
  LET c == [Call("markLessonComplete") EXCEPT !.user = inv.user, !.lesson = inv.lesson]
      check == <<"lesson_progress.select",
                 IF inv.existingProgress THEN "ok" ELSE "PGRST116">>
      \* student_id references users, lesson_id references lessons
      insOut == IF oWrite = "ok" /\ ( \/ PairTaken(inv.user.id, inv.lesson)
                                      \/ users[inv.user.id] = "norow"
                                      \/ \A l \in lessons : l.id # inv.lesson )
                THEN "err" ELSE oWrite
      done(ret, alert, write) ==
        last' = [c EXCEPT !.ret = ret, !.alert = alert, !.calls = <<check, write>>]
  IN  /\ UNCHANGED <<authVars, quizVars, courseVars, notifications>>
      /\ inv \in mlc
      /\ mlc' = mlc \ {inv}
      /\ IF inv.existingProgress
         THEN IF oWrite = "ok"
              THEN /\ lesson_progress' =
                        { IF p.student_id = inv.user.id /\ p.lesson_id = inv.lesson
                          THEN [p EXCEPT !.completed = TRUE, !.completed_at = now]
                          ELSE p : p \in lesson_progress }
                   /\ done("true", "", <<"lesson_progress.update", "ok">>)
              ELSE /\ UNCHANGED lesson_progress
                   /\ done("false", "Failed to mark lesson as complete. Please try again.",
                           <<"lesson_progress.update", oWrite>>)
         ELSE IF insOut = "ok"
              THEN /\ Cardinality(lesson_progress) < MaxProgress
                   /\ lesson_progress' = lesson_progress \cup
                        {[id |-> NewProgressId, student_id |-> inv.user.id,
                          lesson_id |-> inv.lesson, completed |-> TRUE,
                          completed_at |-> now]}
                   /\ done("true", "", <<"lesson_progress.insert", "ok">>)
              ELSE /\ UNCHANGED lesson_progress
                   /\ done("false", "Failed to mark lesson as complete. Please try again.",
                           <<"lesson_progress.insert", insOut>>)

----------------------------------------------------------------------------
(* student.js, teacher.js: progress reports *)

\* .from('lessons').eq('module_id', moduleId)
ModuleLessons(moduleId) == { l \in lessons : l.module_id = moduleId }

\* one reported percentage and the counts it was computed from
Report(key, completedLessons, totalLessons) ==
  [key |-> key, completed |-> completedLessons, total |-> totalLessons,
   pct |-> completionPercentage(completedLessons, totalLessons)]

\* array.reduce((sum, x) => sum + f[x], 0)
RECURSIVE Sum(_)
Sum(f) ==
  IF DOMAIN f = {} THEN 0
  ELSE LET x == CHOOSE x \in DOMAIN f : TRUE
       IN  f[x] + Sum([y \in DOMAIN f \ {x} |-> f[y]])

\* a read that resolved with an error leaves data null, and the first
\* callback that touches it throws a TypeError into the handler's catch
getStudentProgressByModule(u, moduleId, oLessons, oProgress, oSubmissions) ==
  LET c == [Call("getStudentProgressByModule") EXCEPT !.user = u, !.id = moduleId]
      c1 == << <<"lessons.select", oLessons>> >>
      c2 == Append(c1, <<"lesson_progress.select", oProgress>>)
      c3 == Append(c2, <<"quiz_submissions.select", oSubmissions>>)
      progress == { p \in lesson_progress :
                      /\ p.student_id = u.id
                      /\ \E l \in ModuleLessons(moduleId) : l.id = p.lesson_id }
      completedLessons ==
        Cardinality({ l \in ModuleLessons(moduleId) :
                        \E p \in progress : p.lesson_id = l.id /\ p.completed })
      totalLessons == Cardinality(ModuleLessons(moduleId))
      done(ret, calls, pcts, unused) ==
        /\ NotIssued(unused)
        /\ last' = [c EXCEPT !.ret = ret, !.calls = calls, !.pcts = pcts]
  IN  /\ UNCHANGED <<authVars, quizVars, progVars, courseVars, notifications>>
      /\ IF ~IsStudent(u) THEN done("null", <<>>, {}, {oLessons, oProgress, oSubmissions})
         ELSE IF oLessons # "ok" THEN done("null", c1, {}, {oProgress, oSubmissions})
         ELSE IF oProgress = "throw" THEN done("null", c2, {}, {oSubmissions})
         ELSE IF oSubmissions = "throw" THEN done("null", c3, {}, {})
         ELSE IF "err" \in {oProgress, oSubmissions} /\ ModuleLessons(moduleId) # {}
         THEN done("null", c3, {}, {})
         ELSE done("progress", c3, {Report(moduleId, completedLessons, totalLessons)}, {})

getStudentProgress(u, studentId, oStudent, oModules, oProgress, oSubmissions) ==
  LET c == [Call("getStudentProgress") EXCEPT !.user = u, !.id = studentId]
      \* .single(): no row is an error
      stuOut == IF oStudent = "ok" /\ users[studentId] = "norow" THEN "err" ELSE oStudent
      c1 == << <<"users.select", stuOut>> >>
      c2 == Append(c1, <<"modules.select", oModules>>)
      c3 == Append(c2, <<"lesson_progress.select", oProgress>>)
      c4 == Append(c3, <<"quiz_submissions.select", oSubmissions>>)
      progress == { p \in lesson_progress : p.student_id = studentId }
      completedLessons ==
        [m \in modules |->
           Cardinality({ l \in ModuleLessons(m) :
                           \E p \in progress : p.lesson_id = l.id /\ p.completed })]
      moduleLessons == [m \in modules |-> Cardinality(ModuleLessons(m))]
      moduleProgress ==
        { Report(m, completedLessons[m], moduleLessons[m]) : m \in modules }
      overall == Report("overall", Sum(completedLessons), Sum(moduleLessons))
      done(ret, calls, pcts, unused) ==
        /\ NotIssued(unused)
        /\ last' = [c EXCEPT !.ret = ret, !.calls = calls, !.pcts = pcts]
  IN  /\ UNCHANGED <<authVars, quizVars, progVars, courseVars, notifications>>
      /\ IF ~IsStaff(u)
         THEN done("null", <<>>, {}, {oStudent, oModules, oProgress, oSubmissions})
         ELSE IF stuOut # "ok" THEN done("null", c1, {}, {oModules, oProgress, oSubmissions})
         ELSE IF oModules # "ok" THEN done("null", c2, {}, {oProgress, oSubmissions})
         ELSE IF oProgress = "throw" THEN done("null", c3, {}, {oSubmissions})
         ELSE IF oSubmissions = "throw" THEN done("null", c4, {}, {})
         ELSE IF /\ "err" \in {oProgress, oSubmissions}
                 /\ \E m \in modules : ModuleLessons(m) # {}
         THEN done("null", c4, {}, {})
         ELSE done("progress", c4, moduleProgress \cup {overall}, {})

getStudentsByModule(u, moduleId, oLessons, oStudents, oProgress, oSubmissions) ==
  LET c == [Call("getStudentsByModule") EXCEPT !.user = u, !.id = moduleId]
      c1 == << <<"lessons.select", oLessons>> >>
      c2 == Append(c1, <<"users.select", oStudents>>)
      c3 == Append(c2, <<"lesson_progress.select", oProgress>>)
      c4 == Append(c3, <<"quiz_submissions.select", oSubmissions>>)
      students == { id \in Ids : users[id] = "student" }
      progress == { p \in lesson_progress :
                      \E l \in ModuleLessons(moduleId) : l.id = p.lesson_id }
      completedLessons(student) ==
        Cardinality({ p \in progress : p.student_id = student /\ p.completed })
      done(ret, calls, pcts, unused) ==
        /\ NotIssued(unused)
        /\ last' = [c EXCEPT !.ret = ret, !.calls = calls, !.pcts = pcts]
  IN  /\ UNCHANGED <<authVars, quizVars, progVars, courseVars, notifications>>
      /\ IF ~IsStaff(u)
         THEN done("[]", <<>>, {}, {oLessons, oStudents, oProgress, oSubmissions})
         ELSE IF oLessons # "ok" THEN done("[]", c1, {}, {oStudents, oProgress, oSubmissions})
         ELSE IF oStudents # "ok" THEN done("[]", c2, {}, {oProgress, oSubmissions})
         ELSE IF oProgress = "throw" THEN done("[]", c3, {}, {oSubmissions})
         ELSE IF oSubmissions = "throw" THEN done("[]", c4, {}, {})
         ELSE IF "err" \in {oProgress, oSubmissions} /\ students # {}
         THEN done("[]", c4, {}, {})
         ELSE done("students", c4,
                   { Report(student, completedLessons(student),
                            Cardinality(ModuleLessons(moduleId))) : student \in students },
                   {})

----------------------------------------------------------------------------
(* admin.js: accounts.  An account's id stands for its email as well. *)

allowedRoles == {"student", "teacher", "admin"}

\* the shortest password createUser accepts
MinPassword == 6

\* a quiz_submissions row references the user (student_id, reviewed_by: no
\* cascade)
UserReferenced(userId) ==
  \E r \in quiz_submissions : r.student_id = userId \/ r.reviewed_by = userId

\* a quiz_submissions row references one of the lessons (lesson_id: no cascade)
LessonsReferenced(ids) == \E r \in quiz_submissions : r.lesson_id \in ids

\* createUser(email, password, fullName, role); given says whether email,
\* password and full name are all non-empty
createUser(u, email, given, passwordLength, role, oSignUp, oInsert, oDelete) ==
  LET c == [Call("createUser") EXCEPT !.user = u, !.id = email]
      \* the email is registered already
      signUp == IF oSignUp = "ok" /\ authUsers[email] # "none" THEN "err" ELSE oSignUp
      \* id is the primary key of users
      insOut == IF oInsert = "ok" /\ users[email] # "norow" THEN "err" ELSE oInsert
      c1 == << <<"auth.signUp", signUp>> >>
      c2 == Append(c1, <<"users.insert", insOut>>)
      c3 == Append(c2, <<"auth.admin.deleteUser", oDelete>>)
      done(ret, alert, calls, unused) ==
        /\ NotIssued(unused)
        /\ last' = [c EXCEPT !.ret = ret, !.alert = alert, !.calls = calls]
      all == {oSignUp, oInsert, oDelete}
  IN  /\ UNCHANGED <<user, session, quizVars, progVars, courseVars, notifications>>
      /\ IF u = NoUser \/ u.role # "admin"
         THEN /\ done("null", "You do not have permission to create users", <<>>, all)
              /\ UNCHANGED <<users, authUsers>>
         ELSE IF ~given
         THEN /\ done("null", "Email, password, and full name are required", <<>>, all)
              /\ UNCHANGED <<users, authUsers>>
         ELSE IF passwordLength < MinPassword
         THEN /\ done("null", "Password must be at least 6 characters", <<>>, all)
              /\ UNCHANGED <<users, authUsers>>
         ELSE IF role \notin allowedRoles
         THEN /\ done("null", "Invalid user role", <<>>, all)
              /\ UNCHANGED <<users, authUsers>>
         ELSE IF signUp # "ok"
         THEN /\ done("null", "Failed to create user", c1, {oInsert, oDelete})
              /\ UNCHANGED <<users, authUsers>>
         ELSE IF insOut = "throw"
         THEN /\ done("null", "Failed to create user. Please try again.", c2, {oDelete})
              /\ authUsers' = [authUsers EXCEPT ![email] = role]
              /\ UNCHANGED users
         ELSE IF insOut = "err"
         THEN /\ done("null", IF oDelete = "throw"
                              THEN "Failed to create user. Please try again."
                              ELSE "Failed to create user record", c3, {})
              /\ authUsers' = IF oDelete = "ok" THEN authUsers
                              ELSE [authUsers EXCEPT ![email] = role]
              /\ UNCHANGED users
         ELSE /\ done("user", "", c2, {oDelete})
              /\ authUsers' = [authUsers EXCEPT ![email] = role]
              /\ users' = [users EXCEPT ![email] = role]

deleteUser(u, userId, oDelete, oAuthDelete) ==
  LET c == [Call("deleteUser") EXCEPT !.user = u, !.id = userId]
      delOut == IF oDelete = "ok" /\ UserReferenced(userId) THEN "err" ELSE oDelete
      c1 == << <<"users.delete", delOut>> >>
      c2 == Append(c1, <<"auth.admin.deleteUser", oAuthDelete>>)
      done(ret, alert, calls, unused) ==
        /\ NotIssued(unused)
        /\ last' = [c EXCEPT !.ret = ret, !.alert = alert, !.calls = calls]
  IN  /\ UNCHANGED <<user, session, quizVars, mlc, courseVars>>
      /\ IF u = NoUser \/ u.role # "admin"
         THEN /\ done("false", "You do not have permission to delete users", <<>>,
                      {oDelete, oAuthDelete})
              /\ UNCHANGED <<users, authUsers, lesson_progress, notifications>>
         ELSE IF u.id = userId
         THEN /\ done("false", "You cannot delete your own account", <<>>,
                      {oDelete, oAuthDelete})
              /\ UNCHANGED <<users, authUsers, lesson_progress, notifications>>
         ELSE IF delOut # "ok"
         THEN /\ done("false", "Failed to delete user", c1, {oAuthDelete})
              /\ UNCHANGED <<users, authUsers, lesson_progress, notifications>>
         ELSE \* lesson_progress and notifications rows go with the user (on
              \* delete cascade)
              /\ users' = [users EXCEPT ![userId] = "norow"]
              /\ lesson_progress' = { p \in lesson_progress : p.student_id # userId }
              /\ notifications' = { n \in notifications : n.user_id # userId }
              /\ IF oAuthDelete = "ok"
                 THEN /\ authUsers' = [authUsers EXCEPT ![userId] = "none"]
                      /\ done("true", "", c2, {})
                 ELSE /\ UNCHANGED authUsers
                      /\ done("false", "Failed to delete user from authentication system",
                              c2, {})

----------------------------------------------------------------------------
(* modules.js *)

\* a deleteModule that only logs an error of its lessons delete
deleteModuleLoggingOnly(u, moduleId, oLessons, oModule) ==
  LET c == [Call("deleteModule") EXCEPT !.user = u, !.id = moduleId]
      ids == { l.id : l \in ModuleLessons(moduleId) }
      lesOut == IF oLessons = "ok" /\ LessonsReferenced(ids) THEN "err" ELSE oLessons
      c2 == << <<"lessons.delete", lesOut>>, <<"modules.delete", oModule>> >>
  IN  /\ UNCHANGED <<authVars, quizVars, mlc, notifications>>
      /\ IF ~IsStaff(u)
         THEN /\ NotIssued({oLessons, oModule})
              /\ last' = [c EXCEPT !.ret = "false"]
              /\ UNCHANGED <<modules, lessons, lesson_progress>>
         ELSE /\ lessons' = IF lesOut = "ok" THEN lessons \ ModuleLessons(moduleId)
                            ELSE lessons
              /\ lesson_progress' = IF lesOut = "ok"
                                    THEN { p \in lesson_progress : p.lesson_id \notin ids }
                                    ELSE lesson_progress
              /\ modules' = IF oModule = "ok" THEN modules \ {moduleId} ELSE modules
              /\ last' = [c EXCEPT !.calls = c2,
                                   !.ret = IF oModule = "ok" THEN "true" ELSE "false"]

deleteModule(u, moduleId, oLessons, oModule) ==
  LET c == [Call("deleteModule") EXCEPT !.user = u, !.id = moduleId]
      ids == { l.id : l \in ModuleLessons(moduleId) }
      lesOut == IF oLessons = "ok" /\ LessonsReferenced(ids) THEN "err" ELSE oLessons
      c1 == << <<"lessons.delete", lesOut>> >>
      c2 == Append(c1, <<"modules.delete", oModule>>)
      done(ret, alert, calls, unused) ==
        /\ NotIssued(unused)
        /\ last' = [c EXCEPT !.ret = ret, !.alert = alert, !.calls = calls]
  IN  /\ UNCHANGED <<authVars, quizVars, mlc, notifications>>
      /\ IF ~IsStaff(u)
         THEN /\ done("false", "You do not have permission to delete modules", <<>>,
                      {oLessons, oModule})
              /\ UNCHANGED <<modules, lessons, lesson_progress>>
         ELSE IF lesOut # "ok"
         THEN /\ done("false", "Failed to delete module", c1, {oModule})
              /\ UNCHANGED <<modules, lessons, lesson_progress>>
         ELSE \* lesson_progress rows go with their lesson (on delete cascade)
              /\ lessons' = lessons \ ModuleLessons(moduleId)
              /\ lesson_progress' = { p \in lesson_progress : p.lesson_id \notin ids }
              /\ IF oModule = "ok"
                 THEN /\ modules' = modules \ {moduleId}
                      /\ done("true", "", c2, {})
                 ELSE /\ UNCHANGED modules
                      /\ done("false", "Failed to delete module", c2, {})

\* deleteLesson over tables whose lesson_id is no foreign key
deleteLessonUnreferenced(u, lessonId, oProgress, oSubmissions, oLesson) ==
  LET c == [Call("deleteLesson") EXCEPT !.user = u, !.lesson = lessonId]
      progress1 == IF oProgress = "ok"
                   THEN { p \in lesson_progress : p.lesson_id # lessonId }
                   ELSE lesson_progress
      subs1 == IF oSubmissions = "ok"
               THEN { r \in quiz_submissions : r.lesson_id # lessonId }
               ELSE quiz_submissions
      c1 == << <<"lesson_progress.delete", oProgress>> >>
      c2 == Append(c1, <<"quiz_submissions.delete", oSubmissions>>)
      c3 == Append(c2, <<"lessons.delete", oLesson>>)
      done(ret, calls, unused) ==
        /\ NotIssued(unused)
        /\ last' = [c EXCEPT !.ret = ret, !.calls = calls]
  IN  /\ UNCHANGED <<authVars, storage, mlc, modules, notifications>>
      /\ IF ~IsStaff(u)
         THEN /\ done("false", <<>>, {oProgress, oSubmissions, oLesson})
              /\ UNCHANGED <<lessons, lesson_progress, quiz_submissions>>
         ELSE IF oProgress = "throw"
         THEN /\ done("false", c1, {oSubmissions, oLesson})
              /\ UNCHANGED <<lessons, lesson_progress, quiz_submissions>>
         ELSE IF oSubmissions = "throw"
         THEN /\ done("false", c2, {oLesson})
              /\ lesson_progress' = progress1
              /\ UNCHANGED <<lessons, quiz_submissions>>
         ELSE /\ done(IF oLesson = "ok" THEN "true" ELSE "false", c3, {})
              /\ lesson_progress' = progress1
              /\ quiz_submissions' = subs1
              /\ lessons' = IF oLesson = "ok" THEN { l \in lessons : l.id # lessonId }
                            ELSE lessons

\* an error of the first two deletes is logged only
deleteLesson(u, lessonId, oProgress, oSubmissions, oLesson) ==
  LET c == [Call("deleteLesson") EXCEPT !.user = u, !.lesson = lessonId]
      progress1 == IF oProgress = "ok"
                   THEN { p \in lesson_progress : p.lesson_id # lessonId }
                   ELSE lesson_progress
      subs1 == IF oSubmissions = "ok"
               THEN { r \in quiz_submissions : r.lesson_id # lessonId }
               ELSE quiz_submissions
      lesOut == IF oLesson = "ok" /\ \E r \in subs1 : r.lesson_id = lessonId
                THEN "err" ELSE oLesson
      c1 == << <<"lesson_progress.delete", oProgress>> >>
      c2 == Append(c1, <<"quiz_submissions.delete", oSubmissions>>)
      c3 == Append(c2, <<"lessons.delete", lesOut>>)
      done(ret, alert, calls, unused) ==
        /\ NotIssued(unused)
        /\ last' = [c EXCEPT !.ret = ret, !.alert = alert, !.calls = calls]
  IN  /\ UNCHANGED <<authVars, storage, mlc, modules, notifications>>
      /\ IF ~IsStaff(u)
         THEN /\ done("false", "You do not have permission to delete lessons", <<>>,
                      {oProgress, oSubmissions, oLesson})
              /\ UNCHANGED <<lessons, lesson_progress, quiz_submissions>>
         ELSE IF oProgress = "throw"
         THEN /\ done("false", "Failed to delete lesson. Please try again.", c1,
                      {oSubmissions, oLesson})
              /\ UNCHANGED <<lessons, lesson_progress, quiz_submissions>>
         ELSE IF oSubmissions = "throw"
         THEN /\ done("false", "Failed to delete lesson. Please try again.", c2, {oLesson})
              /\ lesson_progress' = progress1
              /\ UNCHANGED <<lessons, quiz_submissions>>
         ELSE IF lesOut # "ok"
         THEN /\ done("false", IF lesOut = "err" THEN "Failed to delete lesson"
                               ELSE "Failed to delete lesson. Please try again.", c3, {})
              /\ lesson_progress' = progress1
              /\ quiz_submissions' = subs1
              /\ UNCHANGED lessons
         ELSE \* lesson_progress rows go with the lesson (on delete cascade)
              /\ done("true", "", c3, {})
              /\ lesson_progress' = { p \in lesson_progress : p.lesson_id # lessonId }
              /\ quiz_submissions' = subs1
              /\ lessons' = { l \in lessons : l.id # lessonId }

----------------------------------------------------------------------------
(* auth.js *)

\* login(email, password): cred is the account the credentials belong to,
\* or one that does not exist
\* a login that returns after a failed insert with the session left signed in
loginKeepingSession(cred, oSignIn, oSelect, oInsert, oSignOut) ==
  LET c == [Call("login") EXCEPT !.user = user, !.id = cred]
      signIn == IF oSignIn = "ok" /\ (cred \notin Ids \/ authUsers[cred] = "none")
                THEN "err" ELSE oSignIn
      selOut == IF oSelect = "ok" /\ users[cred] = "norow" THEN "err" ELSE oSelect
      insOut == IF oInsert = "ok" /\ users[cred] # "norow" THEN "err" ELSE oInsert
      c1 == << <<"auth.signInWithPassword", signIn>> >>
      c2 == Append(c1, <<"users.select", selOut>>)
      c3 == Append(c2, <<"users.insert", insOut>>)
      done(ret, calls, unused) ==
        /\ NotIssued(unused)
        /\ last' = [c EXCEPT !.ret = ret, !.calls = calls]
  IN  /\ UNCHANGED <<authUsers, quizVars, progVars, courseVars, notifications>>
      /\ IF signIn # "ok"
         THEN /\ done("null", c1, {oSelect, oInsert, oSignOut})
              /\ UNCHANGED <<user, session, users>>
         ELSE IF selOut = "throw"
         THEN /\ done("null", c2, {oInsert, oSignOut})
              /\ session' = cred
              /\ UNCHANGED <<user, users>>
         ELSE IF selOut = "ok"
         THEN /\ done("user", c2, {oInsert, oSignOut})
              /\ session' = cred
              /\ user' = [id |-> cred, role |-> users[cred]]
              /\ UNCHANGED users
         ELSE IF insOut # "ok"
         THEN /\ done("null", c3, {oSignOut})
              /\ session' = cred
              /\ UNCHANGED <<user, users>>
         ELSE /\ done("user", c3, {oSignOut})
              /\ session' = cred
              /\ users' = [users EXCEPT ![cred] = authUsers[cred]]
              /\ user' = [id |-> cred, role |-> authUsers[cred]]

login(cred, oSignIn, oSelect, oInsert, oSignOut) ==
  LET c == [Call("login") EXCEPT !.user = user, !.id = cred]
      signIn == IF oSignIn = "ok" /\ (cred \notin Ids \/ authUsers[cred] = "none")
                THEN "err" ELSE oSignIn
      \* .single(): no row is an error
      selOut == IF oSelect = "ok" /\ users[cred] = "norow" THEN "err" ELSE oSelect
      \* id is the primary key of users
      insOut == IF oInsert = "ok" /\ users[cred] # "norow" THEN "err" ELSE oInsert
      c1 == << <<"auth.signInWithPassword", signIn>> >>
      c2 == Append(c1, <<"users.select", selOut>>)
      c3 == Append(c2, <<"users.insert", insOut>>)
      c4 == Append(c3, <<"auth.signOut", oSignOut>>)
      done(ret, calls, unused) ==
        /\ NotIssued(unused)
        /\ last' = [c EXCEPT !.ret = ret, !.calls = calls]
  IN  /\ UNCHANGED <<authUsers, quizVars, progVars, courseVars, notifications>>
      /\ IF signIn # "ok"
         THEN /\ done("null", c1, {oSelect, oInsert, oSignOut})
              /\ UNCHANGED <<user, session, users>>
         ELSE IF selOut = "throw"
         THEN /\ done("null", c2, {oInsert, oSignOut})
              /\ session' = cred
              /\ UNCHANGED <<user, users>>
         ELSE IF selOut = "ok"
         THEN /\ done("user", c2, {oInsert, oSignOut})
              /\ session' = cred
              /\ user' = [id |-> cred, role |-> users[cred]]
              /\ UNCHANGED users
         ELSE IF insOut = "throw"
         THEN /\ done("null", c3, {oSignOut})
              /\ session' = cred
              /\ UNCHANGED <<user, users>>
         ELSE IF insOut = "err"
         THEN /\ done("null", c4, {})
              /\ session' = IF oSignOut = "ok" THEN "none" ELSE cred
              /\ UNCHANGED <<user, users>>
         ELSE /\ done("user", c3, {oSignOut})
              /\ session' = cred
              /\ users' = [users EXCEPT ![cred] = authUsers[cred]]
              /\ user' = [id |-> cred, role |-> authUsers[cred]]

\* a logout with no catch around its sign-out
logoutUncaught(oSignOut) ==
  LET c == [Call("logout") EXCEPT !.user = user,
              !.calls = << <<"auth.signOut", oSignOut>> >>]
  IN  /\ UNCHANGED <<users, authUsers, quizVars, progVars, courseVars, notifications>>
      /\ IF oSignOut = "ok"
         THEN /\ session' = "none"
              /\ user' = NoUser
              /\ last' = [c EXCEPT !.ret = "true"]
         ELSE /\ UNCHANGED <<user, session>>
              /\ last' = [c EXCEPT !.ret = IF oSignOut = "throw" THEN "" ELSE "false",
                                   !.escaped = oSignOut = "throw"]

logout(oSignOut) ==
  LET c == [Call("logout") EXCEPT !.user = user,
              !.calls = << <<"auth.signOut", oSignOut>> >>]
  IN  /\ UNCHANGED <<users, authUsers, quizVars, progVars, courseVars, notifications>>
      /\ IF oSignOut = "ok"
         THEN /\ session' = "none"
              /\ user' = NoUser
              /\ last' = [c EXCEPT !.ret = "true"]
         ELSE /\ UNCHANGED <<user, session>>
              /\ last' = [c EXCEPT !.ret = "false"]

\* a session check that keeps the cached user when there is no session
checkAuthSessionKeepingUser(oSession, oSelect) ==
  LET c == [Call("checkAuthSession") EXCEPT !.user = user]
      sesOut == IF oSession = "ok" /\ session = "none" THEN "nosession" ELSE oSession
      selOut == IF oSelect = "ok" /\ users[session] = "norow" THEN "err" ELSE oSelect
      c1 == << <<"auth.getSession", sesOut>> >>
      c2 == Append(c1, <<"users.select", selOut>>)
      newUser == [id |-> session, role |-> users[session]]
  IN  /\ UNCHANGED <<session, users, authUsers, quizVars, progVars, courseVars,
                     notifications>>
      /\ IF sesOut # "ok" \/ user # NoUser
         THEN /\ NotIssued({oSelect})
              /\ last' = [c EXCEPT !.ret = IF user = NoUser THEN "null" ELSE "user",
                                   !.calls = c1, !.value = user]
              /\ UNCHANGED user
         ELSE IF selOut = "ok"
         THEN /\ last' = [c EXCEPT !.ret = "user", !.calls = c2, !.value = newUser]
              /\ user' = newUser
         ELSE /\ last' = [c EXCEPT !.ret = "null", !.calls = c2]
              /\ UNCHANGED user

\* checkAuthSession(): getSession resolves with the session, with no session
\* ("nosession"), with an error, or rejects
checkAuthSession(oSession, oSelect) ==
  LET c == [Call("checkAuthSession") EXCEPT !.user = user]
      sesOut == IF oSession = "ok" /\ session = "none" THEN "nosession" ELSE oSession
      \* .single(): no row is an error
      selOut == IF oSelect = "ok" /\ users[session] = "norow" THEN "err" ELSE oSelect
      c1 == << <<"auth.getSession", sesOut>> >>
      c2 == Append(c1, <<"users.select", selOut>>)
      newUser == [id |-> session, role |-> users[session]]
  IN  /\ UNCHANGED <<session, users, authUsers, quizVars, progVars, courseVars,
                     notifications>>
      /\ IF sesOut # "ok"
         THEN /\ NotIssued({oSelect})
              /\ last' = [c EXCEPT !.ret = "null", !.calls = c1]
              /\ user' = NoUser
         ELSE IF user # NoUser
         THEN /\ NotIssued({oSelect})
              /\ last' = [c EXCEPT !.ret = "user", !.calls = c1, !.value = user]
              /\ UNCHANGED user
         ELSE IF selOut = "ok"
         THEN /\ last' = [c EXCEPT !.ret = "user", !.calls = c2, !.value = newUser]
              /\ user' = newUser
         ELSE IF selOut = "err"
         THEN /\ last' = [c EXCEPT !.ret = "null", !.calls = c2]
              /\ UNCHANGED user
         ELSE /\ last' = [c EXCEPT !.ret = "null", !.calls = c2]
              /\ user' = NoUser

----------------------------------------------------------------------------
(* The application in one browser: quiz submissions and their review *)

\* the page as loaded: an empty cache, no timers, no createLesson in flight
InitPage ==
  /\ clc = {}
  /\ cache = [k \in Keys |-> NoEntry]
  /\ clock = 0
  /\ sessionCheckInterval = 0
  /\ intervals = {}
  /\ polls = 0
  /\ redirects = 0
  /\ latest = [k \in Keys |-> NoSet]
  /\ expired = FALSE

Init ==
  /\ user = NoUser
  /\ session = "none"
  /\ users = [id \in Ids |-> IF id \in Accounts \ {"s2"} THEN SeedRole(id) ELSE "norow"]
  /\ authUsers = [id \in Ids |-> SeedRole(id)]
  /\ quiz_submissions = {}
  /\ storage = {}
  /\ lesson_progress = {}
  /\ mlc = {}
  /\ modules = Modules
  /\ lessons = {[id |-> l, module_id |-> "M1", order_index |-> l] : l \in Lessons}
  /\ notifications = {}
  /\ nOps = 0
  /\ last = Call("none")
  /\ InitPage

\* the caller takes the result of the invocation that returned
Continue ==
  /\ ~Idle
  /\ last' = Call("none")
  /\ UNCHANGED <<authVars, quizVars, progVars, courseVars, notifications, nOps>>
  /\ UNCHANGED <<clc, pageVars>>

Login ==
  /\ Idle /\ UNCHANGED <<nOps, clc, pageVars>>
  /\ \E cred \in Accounts \cup {"nobody"}, oSignIn \in {"ok", "err"} :
       login(cred, oSignIn, "ok", "ok", "ok")

Logout ==
  /\ Idle /\ UNCHANGED <<nOps, clc, pageVars>>
  /\ \E oSignOut \in Outcomes : logout(oSignOut)

SubmitQuizScore ==
  /\ Idle /\ UNCHANGED <<nOps, clc, pageVars>>
  /\ \E lessonId \in Lessons, form \in QuizForms, file \in Files,
        now \in Times, oUpload, oInsert \in Outcomes :
       submitQuizScore(user, lessonId, form.score, form.total, file, now,
                       oUpload, oInsert)

RequestQuizResubmission ==
  /\ Idle /\ UNCHANGED <<nOps, clc, pageVars>>
  /\ \E submissionId \in SubIds, oUpdate \in Outcomes :
       requestQuizResubmission(user, submissionId, oUpdate)

UpdateQuizSubmission ==
  /\ Idle /\ UNCHANGED <<nOps, clc, pageVars>>
  /\ \E submissionId \in SubIds, form \in QuizForms, file \in Files,
        now \in Times, oSelect, oUpload, oUpdate \in Outcomes :
       updateQuizSubmission(user, submissionId, form.score, form.total, file, now,
                            oSelect, oUpload, oUpdate)

ApproveQuizSubmission ==
  /\ Idle /\ UNCHANGED <<nOps, clc, pageVars>>
  /\ \E submissionId \in SubIds, comment \in ApproveComments, now \in Times,
        oUpdate \in Outcomes :
       approveQuizSubmission(user, submissionId, comment, now, oUpdate)

RejectQuizSubmission ==
  /\ Idle /\ UNCHANGED <<nOps, clc, pageVars>>
  /\ \E submissionId \in SubIds, comment \in CommentInputs, now \in Times,
        oUpdate \in Outcomes :
       rejectQuizSubmission(user, submissionId, comment, now, oUpdate)

GetPendingQuizSubmissions ==
  /\ Idle /\ UNCHANGED <<nOps, clc, pageVars>>
  /\ \E oSelect \in Outcomes : getPendingQuizSubmissions(user, oSelect)

GetSubmissionStats ==
  /\ Idle /\ UNCHANGED <<nOps, clc, pageVars>>
  /\ \E oSelect \in Outcomes : getSubmissionStats(user, oSelect)

GetStudentProgress ==
  /\ Idle /\ UNCHANGED <<nOps, clc, pageVars>>
  /\ \E studentId \in {"s1"}, oStudent, oModules, oProgress, oSubmissions \in Outcomes :
       getStudentProgress(user, studentId, oStudent, oModules, oProgress, oSubmissions)

GetStudentsByModule ==
  /\ Idle /\ UNCHANGED <<nOps, clc, pageVars>>
  /\ \E moduleId \in modules, oLessons, oStudents, oProgress, oSubmissions \in Outcomes :
       getStudentsByModule(user, moduleId, oLessons, oStudents, oProgress, oSubmissions)

SendNotification ==
  /\ Idle /\ UNCHANGED <<nOps, clc, pageVars>>
  /\ \E studentId \in {"s1"}, given \in BOOLEAN, oInsert \in Outcomes :
       sendNotification(user, studentId, given, oInsert)

Next ==
  \/ Continue
  \/ Login
  \/ Logout
  \/ SubmitQuizScore
  \/ RequestQuizResubmission
  \/ UpdateQuizSubmission
  \/ ApproveQuizSubmission
  \/ RejectQuizSubmission
  \/ GetPendingQuizSubmissions
  \/ GetSubmissionStats
  \/ GetStudentProgress
  \/ GetStudentsByModule
  \/ SendNotification

Spec == Init /\ [][Next]_vars

----------------------------------------------------------------------------
(* Properties of quiz submissions and their review *)

\* a handler returned in this step
Returned(op) == Idle /\ last'.op = op

\* the remote calls of names that the invocation issued
Issued(call, names) == \E i \in 1..Len(call.calls) : call.calls[i][1] \in names

\* the invocation's remote call of that name resolved without error
Succeeded(call, name) == \E i \in 1..Len(call.calls) : call.calls[i] = <<name, "ok">>

WriteCalls == {"storage.upload", "quiz_submissions.insert", "quiz_submissions.update"}

\* C1: a submitQuizScore or updateQuizSubmission call whose score parses to
\* more than its total items returns false, uploads no screenshot and inserts
\* or updates no quiz_submissions row.
C1_GreaterScoreRejected ==
  [][ \A op \in {"submitQuizScore", "updateQuizSubmission"} :
        ( /\ Returned(op)
          /\ ~ParseInt(last'.score).nan /\ ~ParseInt(last'.total).nan
          /\ ParseInt(last'.score).v > ParseInt(last'.total).v )
        => /\ last'.ret = "false"
           /\ ~Issued(last', WriteCalls)
           /\ UNCHANGED <<quiz_submissions, storage>> ]_vars

\* the student who owns a submission has sent an update with a screenshot and
\* a score above the total, and was shown the message
C1_Witness ==
  /\ last.op = "updateQuizSubmission"
  /\ last.alert = "Score cannot be greater than total items"
  /\ last.file.type \in allowedTypes /\ last.file.size <= maxSize
  /\ \E r \in quiz_submissions : r.id = last.sid /\ r.student_id = last.user.id

\* C2: every quiz_submissions row satisfies 0 <= score <= total_items and
\* total_items > 0.
C2_ScoreWithinTotal ==
  \A r \in quiz_submissions :
    0 <= r.score /\ r.score <= r.total_items /\ r.total_items > 0

\* a reviewed submission was updated by its student to the full score
C2_Witness ==
  /\ last.op = "updateQuizSubmission" /\ last.ret = "true"
  /\ \E r \in quiz_submissions :
       /\ r.id = last.sid /\ r.reviewed_by # "none"
       /\ r.score = r.total_items /\ r.score = 2

\* C3: the status of every quiz submission is pending, approved or rejected.
C3_StatusEnum ==
  \A r \in quiz_submissions : r.status \in {"pending", "approved", "rejected"}

\* a submission has been approved by one reviewer and then rejected by another
C3_Witness ==
  /\ last.op = "rejectQuizSubmission" /\ last.ret = "true"
  /\ \E r \in quiz_submissions :
       r.id = last.sid /\ r.status = "rejected" /\ last.user.id = r.reviewed_by

\* C5: a row created by submitQuizScore has status pending, and a row's status
\* becomes approved (rejected) only in a step of approveQuizSubmission
\* (rejectQuizSubmission) on that row, called while the cached user's role is
\* teacher or admin.
C5_ReviewByStaffOnly ==
  [][ /\ \A r \in quiz_submissions' :
          (\A q \in quiz_submissions : q.id # r.id)
          => last'.op = "submitQuizScore" /\ r.status = "pending"
      /\ \A r \in quiz_submissions' : \A q \in quiz_submissions :
          (q.id = r.id /\ q.status # r.status /\ r.status # "pending")
          => /\ last'.op = IF r.status = "approved" THEN "approveQuizSubmission"
                           ELSE "rejectQuizSubmission"
             /\ last'.sid = r.id
             /\ last'.user = user
             /\ user.role \in {"teacher", "admin"} ]_vars

\* a student's pending submission has just been approved by the teacher
C5_Witness ==
  /\ last.op = "approveQuizSubmission" /\ last.ret = "true"
  /\ last.user.role = "teacher"
  /\ \E r \in quiz_submissions :
       /\ r.id = last.sid /\ r.status = "approved" /\ r.reviewed_by = last.user.id
       /\ r.student_id \in Students

\* a comment that is missing, empty or only white space
Blank(comment) ==
  comment = Null \/ \A i \in 1..Len(comment) : comment[i] \in {" ", "\t"}

\* t is comment without its leading and trailing white space
Trimmed(t, comment) ==
  /\ t # <<>> /\ t[1] \notin {" ", "\t"} /\ t[Len(t)] \notin {" ", "\t"}
  /\ \E i \in 0..Len(comment) :
       /\ i + Len(t) <= Len(comment)
       /\ SubSeq(comment, i + 1, i + Len(t)) = t
       /\ \A j \in (1..i) \cup ((i + Len(t) + 1)..Len(comment)) :
            comment[j] \in {" ", "\t"}

\* C6: rejectQuizSubmission with a missing, empty or white-space comment
\* returns false and leaves the submission's status, teacher_comment,
\* reviewed_by and reviewed_at as they were; with any other comment, a
\* teacher's or admin's call whose update succeeds leaves the submission
\* rejected with the trimmed comment.
C6_RejectRequiresComment ==
  [][ Returned("rejectQuizSubmission") =>
        IF Blank(last'.comment)
        THEN /\ last'.ret = "false"
             /\ \A q \in quiz_submissions : \E r \in quiz_submissions' :
                  /\ r.id = q.id /\ r.status = q.status
                  /\ r.teacher_comment = q.teacher_comment
                  /\ r.reviewed_by = q.reviewed_by /\ r.reviewed_at = q.reviewed_at
        ELSE Succeeded(last', "quiz_submissions.update")
             => /\ last'.ret = "true"
                /\ \A r \in quiz_submissions' :
                     r.id = last'.sid
                     => r.status = "rejected" /\ Trimmed(r.teacher_comment, last'.comment) ]_vars

\* the teacher tried to reject a pending submission with a comment of white
\* space only
C6_Witness ==
  /\ last.op = "rejectQuizSubmission" /\ last.user.role = "teacher"
  /\ last.comment = <<" ", "\t">> /\ last.ret = "false"
  /\ \E r \in quiz_submissions : r.id = last.sid /\ r.status = "pending"

\* C7: requestQuizResubmission, called by the student who owns a rejected
\* submission and whose update succeeds, leaves the submission pending with
\* no teacher_comment and with its score, total_items and screenshot_url as
\* they were.
C7_ResubmissionFrame ==
  [][ \A q \in quiz_submissions :
        ( /\ Returned("requestQuizResubmission")
          /\ q.id = last'.sid /\ q.student_id = user.id /\ user.role = "student"
          /\ q.status = "rejected"
          /\ Succeeded(last', "quiz_submissions.update") )
        => /\ last'.ret = "true"
           /\ \E r \in quiz_submissions' :
                /\ r.id = q.id /\ r.status = "pending" /\ r.teacher_comment = Null
                /\ r.score = q.score /\ r.total_items = q.total_items
                /\ r.screenshot_url = q.screenshot_url
           /\ Cardinality(quiz_submissions') = Cardinality(quiz_submissions) ]_vars

\* the owner of a rejected submission that has a screenshot asked to resubmit
C7_Witness ==
  /\ last.op = "requestQuizResubmission" /\ last.ret = "true"
  /\ last.was = "rejected"
  /\ \E r \in quiz_submissions :
       /\ r.id = last.sid /\ r.student_id = last.user.id
       /\ r.status = "pending" /\ r.screenshot_url # NoUrl

StaffOnly ==
  {"approveQuizSubmission", "rejectQuizSubmission", "getPendingQuizSubmissions",
   "getStudentProgress", "getStudentsByModule", "getSubmissionStats",
   "sendNotification"}

\* C10: an operation documented for teachers and admins only, invoked while
\* the cached user is absent or a student, issues no remote call and returns
\* its failure or empty value.
C10_StaffOnlyGuarded ==
  (last.op \in StaffOnly /\ last.user.role \notin {"teacher", "admin"})
  => last.calls = <<>> /\ last.ret \in {"false", "null", "[]"}

----------------------------------------------------------------------------
(* Lesson progress: markLessonComplete invoked from several tabs at once *)

MarkLessonCompleteCheck ==
  /\ Idle /\ UNCHANGED <<nOps, clc, pageVars>>
  /\ \E lessonId \in Lessons, slot \in 1..MaxInFlight, oCheck \in Outcomes :
       markLessonCompleteCheck(user, lessonId, slot, oCheck)

MarkLessonCompleteWrite ==
  /\ Idle /\ UNCHANGED <<nOps, clc, pageVars>>
  /\ \E inv \in mlc, now \in Times, oWrite \in Outcomes :
       markLessonCompleteWrite(inv, now, oWrite)

NextProgress ==
  \/ Continue
  \/ Login
  \/ Logout
  \/ MarkLessonCompleteCheck
  \/ MarkLessonCompleteWrite

SpecProgress == Init /\ [][NextProgress]_vars

\* C4: there is at most one lesson_progress row per (student_id, lesson_id).
C4_ProgressPairUnique ==
  \A p, q \in lesson_progress :
    (p.student_id = q.student_id /\ p.lesson_id = q.lesson_id) => p = q

\* an invocation whose check found no row has had its insert refused, and the
\* row of its pair is in the table: another invocation wrote between its
\* check and its write
C4_Witness ==
  /\ last.op = "markLessonComplete" /\ last.ret = "false"
  /\ last.calls = << <<"lesson_progress.select", "PGRST116">>,
                     <<"lesson_progress.insert", "err">> >>
  /\ \E p \in lesson_progress :
       p.student_id = last.user.id /\ p.lesson_id = last.lesson

----------------------------------------------------------------------------
(* Progress reports over a course of up to MaxLessons lessons *)

\* the course has two modules; student s1 has completed the first completed
\* lessons of each
InitPct ==
  /\ user \in {[id |-> "s1", role |-> "student"], [id |-> "t1", role |-> "teacher"]}
  /\ session = user.id
  /\ users = [id \in Ids |-> IF id \in Accounts THEN SeedRole(id) ELSE "norow"]
  /\ authUsers = [id \in Ids |-> SeedRole(id)]
  /\ quiz_submissions = {}
  /\ storage = {}
  /\ mlc = {}
  /\ modules = {"M1", "M2"}
  /\ \E total1 \in 0..MaxLessons, total2 \in 0..MaxOtherLessons :
       \E completed1 \in 0..total1, completed2 \in 0..total2 :
         /\ lessons = {[id |-> l, module_id |-> "M1", order_index |-> l] : l \in 1..total1}
                        \cup {[id |-> MaxLessons + l, module_id |-> "M2", order_index |-> l]
                                : l \in 1..total2}
         /\ lesson_progress =
              {[id |-> l, student_id |-> "s1", lesson_id |-> l, completed |-> TRUE,
                completed_at |-> 1] : l \in (1..completed1)
                                          \cup {MaxLessons + k : k \in 1..completed2}}
  /\ notifications = {}
  /\ nOps = 0
  /\ last = Call("none")
  /\ InitPage

GetStudentProgressByModule ==
  /\ Idle /\ UNCHANGED <<nOps, clc, pageVars>>
  /\ \E moduleId \in modules, oLessons, oProgress, oSubmissions \in Outcomes :
       getStudentProgressByModule(user, moduleId, oLessons, oProgress, oSubmissions)

NextPct ==
  \/ Continue
  \/ GetStudentProgressByModule
  \/ GetStudentProgress
  \/ GetStudentsByModule

SpecPct == InitPct /\ [][NextPct]_vars

\* C8: every completion percentage reported by getStudentProgressByModule,
\* getStudentProgress (per module and overall) and getStudentsByModule is
\* 100 * completed / total rounded to the nearest integer, a half going up,
\* and is 0 when total is 0.
C8_PercentageRounded ==
  \A r \in last.pcts :
    r.pct = IF r.total = 0 THEN 0
            ELSE (200 * r.completed + r.total) \div (2 * r.total)

----------------------------------------------------------------------------
(* The data operations under every combination of failing remote calls *)

\* the forms, files and comments of this specification
OpsForms == { [score |-> <<"2">>, total |-> <<"1">>],
              [score |-> <<"0">>, total |-> <<"1">>] }
OpsFiles == { NoFile, [type |-> "image/png", size |-> maxSize] }
OpsComments == { Null, <<"a">> }

\* one more handler invocation, of at most MaxOps
Invoke == Idle /\ nOps < MaxOps /\ nOps' = nOps + 1 /\ UNCHANGED <<clc, pageVars>>

LoginOps ==
  /\ Invoke
  /\ \E cred \in Accounts \cup {"nobody"}, oSignIn, oSelect, oInsert, oSignOut \in Outcomes :
       login(cred, oSignIn, oSelect, oInsert, oSignOut)

LogoutOps ==
  /\ Invoke
  /\ \E oSignOut \in Outcomes : logout(oSignOut)

MarkLessonCompleteCheckOps ==
  /\ Invoke
  /\ \E lessonId \in Lessons, oCheck \in Outcomes :
       markLessonCompleteCheck(user, lessonId, 1, oCheck)

MarkLessonCompleteWriteOps ==
  /\ Idle /\ UNCHANGED <<nOps, clc, pageVars>>
  /\ \E inv \in mlc, now \in Times, oWrite \in Outcomes :
       markLessonCompleteWrite(inv, now, oWrite)

SubmitQuizScoreOps ==
  /\ Invoke
  /\ \E lessonId \in Lessons, form \in OpsForms, file \in OpsFiles, now \in Times,
        oUpload, oInsert \in Outcomes :
       submitQuizScore(user, lessonId, form.score, form.total, file, now,
                       oUpload, oInsert)

UpdateQuizSubmissionOps ==
  /\ Invoke
  /\ \E submissionId \in SubIds, form \in OpsForms, file \in OpsFiles, now \in Times,
        oSelect, oUpload, oUpdate \in Outcomes :
       updateQuizSubmission(user, submissionId, form.score, form.total, file, now,
                            oSelect, oUpload, oUpdate)

ApproveQuizSubmissionOps ==
  /\ Invoke
  /\ \E submissionId \in SubIds, now \in Times, oUpdate \in Outcomes :
       approveQuizSubmission(user, submissionId, Null, now, oUpdate)

RejectQuizSubmissionOps ==
  /\ Invoke
  /\ \E submissionId \in SubIds, comment \in OpsComments, now \in Times,
        oUpdate \in Outcomes :
       rejectQuizSubmission(user, submissionId, comment, now, oUpdate)

CreateUserOps ==
  /\ Invoke
  /\ \E email \in NewAccounts \cup {"s1"}, given \in BOOLEAN,
        passwordLength \in {MinPassword - 1, MinPassword},
        role \in {"student", "guest"}, oSignUp, oInsert, oDelete \in Outcomes :
       createUser(user, email, given, passwordLength, role, oSignUp, oInsert, oDelete)

DeleteUserOps ==
  /\ Invoke
  /\ \E userId \in {"s1", "a1", "n1"}, oDelete, oAuthDelete \in Outcomes :
       deleteUser(user, userId, oDelete, oAuthDelete)

DeleteModuleOps ==
  /\ Invoke
  /\ \E moduleId \in Modules, oLessons, oModule \in Outcomes :
       deleteModule(user, moduleId, oLessons, oModule)

DeleteLessonOps ==
  /\ Invoke
  /\ \E lessonId \in Lessons, oProgress, oSubmissions, oLesson \in Outcomes :
       deleteLesson(user, lessonId, oProgress, oSubmissions, oLesson)

CheckAuthSessionOps ==
  /\ Invoke
  /\ \E oSession, oSelect \in Outcomes : checkAuthSession(oSession, oSelect)

NextOps ==
  \/ Continue
  \/ LoginOps
  \/ LogoutOps
  \/ MarkLessonCompleteCheckOps
  \/ MarkLessonCompleteWriteOps
  \/ SubmitQuizScoreOps
  \/ UpdateQuizSubmissionOps
  \/ ApproveQuizSubmissionOps
  \/ RejectQuizSubmissionOps
  \/ CreateUserOps
  \/ DeleteUserOps
  \/ DeleteModuleOps
  \/ DeleteLessonOps
  \/ CheckAuthSessionOps

SpecOps == Init /\ [][NextOps]_vars

\* the values each data operation returns
Returns ==
  [ markLessonComplete |-> {"true", "false"},
    submitQuizScore |-> {"true", "false"},
    updateQuizSubmission |-> {"true", "false"},
    approveQuizSubmission |-> {"true", "false"},
    rejectQuizSubmission |-> {"true", "false"},
    createUser |-> {"user", "null"},
    deleteUser |-> {"true", "false"},
    deleteModule |-> {"true", "false"},
    deleteLesson |-> {"true", "false"},
    login |-> {"user", "null"},
    logout |-> {"true", "false"} ]

\* C9: every invocation of a data operation returns its success value or its
\* failure value, whatever remote calls fail: no exception leaves it, it
\* returns failure when its last remote call was rejected, and it issues no
\* remote call again after that call failed.
C9_SucceedsOrReports ==
  last.op \in DOMAIN Returns
  => /\ last.ret \in Returns[last.op]
     /\ ~last.escaped
     /\ (last.calls # <<>> /\ last.calls[Len(last.calls)][2] = "throw"
         => last.ret \in {"false", "null"})
     /\ \A i, j \in 1..Len(last.calls) :
          (i < j /\ last.calls[i][2] # "ok") => last.calls[j][1] # last.calls[i][1]

\* createUser's cleanup has thrown after its insert failed, and createUser
\* returned null
C9_Witness ==
  /\ last.op = "createUser" /\ last.ret = "null"
  /\ last.calls = << <<"auth.signUp", "ok">>, <<"users.insert", "err">>,
                     <<"auth.admin.deleteUser", "throw">> >>

\* the names and the outcomes of the remote calls of the last invocation
CallNames    == { last.calls[i][1] : i \in 1..Len(last.calls) }
CallOutcomes == { last.calls[i] : i \in 1..Len(last.calls) }

\* C11: login caches a user only after its sign-in succeeded and the users row
\* was read or created, and the user it caches is the one it returns; on every
\* failure it returns null and leaves the cached user as it was; when the
\* insert of the missing users row resolves with an error, auth.signOut is its
\* last call, and the session is signed out when that call succeeds.
C11_LoginCachesOnSuccess ==
  last.op = "login"
  => /\ last.ret \in {"user", "null"}
     /\ last.ret = "user"
        => /\ <<"auth.signInWithPassword", "ok">> \in CallOutcomes
           /\ \/ <<"users.select", "ok">> \in CallOutcomes
              \/ <<"users.insert", "ok">> \in CallOutcomes
           /\ user # NoUser /\ user.id = last.id /\ user.role = users[last.id]
           /\ session = last.id
     /\ last.ret = "null" => user = last.user
     /\ <<"users.insert", "err">> \in CallOutcomes
        => /\ last.ret = "null"
           /\ last.calls[Len(last.calls)][1] = "auth.signOut"
           /\ last.calls[Len(last.calls)][2] = "ok" => session = "none"

\* with a user cached, a login whose insert of the missing users row failed
\* has signed out and returned null
C11_Witness ==
  /\ last.op = "login" /\ last.ret = "null" /\ last.user # NoUser
  /\ last.id # last.user.id
  /\ <<"users.insert", "err">> \in CallOutcomes
  /\ last.calls[Len(last.calls)] = <<"auth.signOut", "ok">>
  /\ session = "none" /\ user = last.user

\* C12: checkAuthSession returns null and leaves no cached user whenever
\* getSession reports no session or an error, or rejects; whenever it returns
\* a user there is a session and the cached user is the user it returned.
C12_SessionCheck ==
  last.op = "checkAuthSession"
  => /\ last.ret \in {"user", "null"}
     /\ last.calls[1][1] = "auth.getSession"
     /\ last.calls[1][2] # "ok" => last.ret = "null" /\ user = NoUser
     /\ last.ret = "user"
        => /\ last.calls[1][2] = "ok" /\ session # "none"
           /\ last.value # NoUser /\ user = last.value

\* a user was cached and the session check found no session
C12_Witness ==
  /\ last.op = "checkAuthSession" /\ last.user # NoUser
  /\ last.calls = << <<"auth.getSession", "nosession">> >>
  /\ last.ret = "null" /\ user = NoUser

\* the lesson_progress rows of a student and a lesson
PairRows(rows, studentId, lessonId) ==
  { p \in rows : p.student_id = studentId /\ p.lesson_id = lessonId }

\* C13: after markLessonComplete returns true there is exactly one
\* lesson_progress row of the student and the lesson, and it is completed; a
\* call whose check found the row and whose update the backend accepts returns
\* true and leaves exactly that one row, completed; a call with no cached user
\* or a cached user who is not a student returns false, issues no remote call
\* and writes nothing.
C13_MarkCompleteIdempotent ==
  [][ /\ Returned("markLessonComplete")
         => /\ ~IsStudent(last'.user)
               => /\ last'.ret = "false" /\ last'.calls = <<>>
                  /\ UNCHANGED lesson_progress
            /\ last'.ret = "true"
               => LET rows == PairRows(lesson_progress', last'.user.id, last'.lesson)
                  IN  Cardinality(rows) = 1 /\ \A p \in rows : p.completed
      /\ \A inv \in mlc, now \in Times :
           (inv.existingProgress /\ markLessonCompleteWrite(inv, now, "ok"))
           => /\ last'.ret = "true"
              /\ Cardinality(lesson_progress') = Cardinality(lesson_progress)
              /\ LET rows == PairRows(lesson_progress', inv.user.id, inv.lesson)
                 IN  Cardinality(rows) = 1 /\ \A p \in rows : p.completed ]_vars

\* a further call for a lesson the student had completed has returned true
C13_Witness ==
  /\ last.op = "markLessonComplete" /\ last.ret = "true"
  /\ last.calls = << <<"lesson_progress.select", "ok">>,
                     <<"lesson_progress.update", "ok">> >>
  /\ Cardinality(PairRows(lesson_progress, last.user.id, last.lesson)) = 1

\* C14: whenever deleteModule returns true, the module is gone and so is every
\* lesson that had its module_id when the call started; when its lessons
\* delete resolves with an error or rejects, it returns false and the modules
\* table is as it was.
C14_DeleteModuleWithLessons ==
  [][ Returned("deleteModule")
      => /\ last'.ret = "true"
            => /\ last'.id \notin modules'
               /\ \A l \in lessons : l.module_id = last'.id => l \notin lessons'
               /\ \A l \in lessons' : l.module_id # last'.id
         /\ (last'.calls # <<>> /\ last'.calls[1][2] # "ok")
            => /\ last'.calls[1][1] = "lessons.delete"
               /\ last'.ret = "false"
               /\ UNCHANGED modules ]_vars

\* the first operation of a teacher or admin after login deleted the module
\* with its lesson
C14_Witness ==
  /\ last.op = "deleteModule" /\ last.ret = "true" /\ nOps = 2
  /\ last.id \notin modules /\ lessons = {}
  /\ Succeeded(last, "lessons.delete")

\* C15: whenever deleteLesson returns true, whichever of its three deletes
\* failed, the lesson is gone and no lesson_progress row and no
\* quiz_submissions row has its lesson_id.
C15_DeleteLessonLeavesNoReference ==
  (last.op = "deleteLesson" /\ last.ret = "true")
  => /\ \A l \in lessons : l.id # last.lesson
     /\ \A p \in lesson_progress : p.lesson_id # last.lesson
     /\ \A r \in quiz_submissions : r.lesson_id # last.lesson

\* deleteLesson returned true although its first two deletes resolved with an
\* error
C15_Witness ==
  /\ last.op = "deleteLesson" /\ last.ret = "true"
  /\ last.calls = << <<"lesson_progress.delete", "err">>,
                     <<"quiz_submissions.delete", "err">>,
                     <<"lessons.delete", "ok">> >>

\* C19: submitQuizScore uploads a screenshot only when the cached user is a
\* student and the score and the total items passed the checks; when a
\* screenshot is given, the quiz_submissions insert is issued only after the
\* upload succeeded, and the row inserted carries the uploaded file's URL; a
\* screenshot that is no JPEG, PNG, WebP or GIF image, or is larger than
\* 5 MB, causes no upload call and no quiz_submissions row.
C19_ValidateUploadInsert ==
  [][ Returned("submitQuizScore")
      => LET c     == last'
             score == ParseInt(c.score)
             total == ParseInt(c.total)
         IN  /\ Issued(c, {"storage.upload"})
                => /\ IsStudent(c.user)
                   /\ ~score.nan /\ ~total.nan
                   /\ 0 <= score.v /\ score.v <= total.v /\ total.v > 0
                   /\ c.calls[1][1] = "storage.upload"
             /\ (c.file # NoFile /\ Issued(c, {"quiz_submissions.insert"}))
                => /\ c.calls[1] = <<"storage.upload", "ok">>
                   /\ c.calls[2][1] = "quiz_submissions.insert"
                   /\ Len(c.calls) = 2
             /\ (c.file # NoFile /\ quiz_submissions' # quiz_submissions)
                => /\ Succeeded(c, "storage.upload")
                   /\ \A r \in quiz_submissions' \ quiz_submissions :
                        r.screenshot_url \in storage' \ storage
             /\ (c.file # NoFile
                 /\ (c.file.type \notin {"image/jpeg", "image/png", "image/webp", "image/gif"}
                     \/ c.file.size > 5 * 1024 * 1024))
                => /\ c.ret = "false"
                   /\ ~Issued(c, {"storage.upload", "quiz_submissions.insert"})
                   /\ UNCHANGED <<quiz_submissions, storage>> ]_vars

\* a student's submission with a valid score and a PNG of one byte more than
\* 5 MB was refused before any remote call
C19_Witness ==
  /\ last.op = "submitQuizScore" /\ IsStudent(last.user)
  /\ last.score = <<" ", "2", "x">> /\ last.total = <<"2">>
  /\ last.file = [type |-> "image/png", size |-> 5242881]
  /\ last.ret = "false" /\ last.calls = <<>>
  /\ last.alert = "Failed to upload screenshot"

----------------------------------------------------------------------------
(* utils.js: the time-to-live cache of the page *)

CACHE_TTL == 300000
CACHE_ENABLED == TRUE

\* the ttl arguments of setCache: <<>> when the argument is not given
TtlArgs == { <<>>, <<0>>, <<Tick>> }
\* the key arguments of clearCache: <<>> when the argument is not given
KeyArgs == { <<>> } \cup { <<k>> : k \in Keys }

\* a getCached with no check of the expiry
getCachedUnexpiring(key) ==
  IF cache[key] = NoEntry THEN [ret |-> "null", cache |-> cache]
  ELSE [ret |-> cache[key].data, cache |-> cache]

\* getCached(key): the value returned and the cache it leaves
getCached(key) ==
  IF ~CACHE_ENABLED THEN [ret |-> "null", cache |-> cache]
  ELSE IF cache[key] = NoEntry THEN [ret |-> "null", cache |-> cache]
  ELSE IF clock > cache[key].expiry
       THEN [ret |-> "null", cache |-> [cache EXCEPT ![key] = NoEntry]]
  ELSE [ret |-> cache[key].data, cache |-> cache]

\* setCache(key, data, ttl = CONFIG.CACHE_TTL): the cache it leaves
setCache(key, data, ttlArg) ==
  LET ttl == IF ttlArg = <<>> THEN CACHE_TTL ELSE ttlArg[1]
  IN  IF ~CACHE_ENABLED THEN cache
      ELSE [cache EXCEPT ![key] = [data |-> data, expiry |-> clock + ttl]]

\* clearCache(key = null): the cache it leaves; if (key) is false of ""
clearCache(keyArg) ==
  IF keyArg # <<>> /\ keyArg[1] # ""
  THEN [cache EXCEPT ![keyArg[1]] = NoEntry]
  ELSE [k \in Keys |-> NoEntry]

\* the keys a clearCache call is on record to have cleared: its key, or every
\* key when it was given none or a falsy one
Cleared(keyArg) == IF keyArg = <<>> \/ keyArg[1] = "" THEN Keys ELSE {keyArg[1]}

GetCached ==
  /\ \E key \in Keys : cache' = getCached(key).cache
  /\ UNCHANGED <<authVars, quizVars, progVars, courseVars, notifications, nOps, last,
                 clc, clock, latest, monitorVars, expired>>

SetCache ==
  /\ \E key \in Keys, data \in Data, ttlArg \in TtlArgs :
       /\ cache' = setCache(key, data, ttlArg)
       /\ latest' = [latest EXCEPT ![key] =
                       [data |-> data, time |-> clock,
                        ttl |-> IF ttlArg = <<>> THEN CACHE_TTL ELSE ttlArg[1]]]
  /\ UNCHANGED <<authVars, quizVars, progVars, courseVars, notifications, nOps, last,
                 clc, clock, monitorVars, expired>>

ClearCache ==
  /\ \E keyArg \in KeyArgs :
       /\ cache' = clearCache(keyArg)
       /\ latest' = [k \in Keys |-> IF k \in Cleared(keyArg) THEN NoSet ELSE latest[k]]
  /\ UNCHANGED <<authVars, quizVars, progVars, courseVars, notifications, nOps, last,
                 clc, clock, monitorVars, expired>>

\* time passes
Advance ==
  /\ clock < MaxClock * Tick
  /\ clock' = clock + Tick
  /\ UNCHANGED <<authVars, quizVars, progVars, courseVars, notifications, nOps, last,
                 clc, cache, latest, monitorVars, expired>>

NextCache ==
  \/ GetCached
  \/ SetCache
  \/ ClearCache
  \/ Advance

SpecCache == Init /\ [][NextCache]_vars

\* C17: for every key, getCached returns the data of the latest setCache of
\* the key while the clock is at most that call's time plus its ttl and no
\* clearCache has cleared the key since, and null otherwise; a getCached that
\* finds an expired entry removes it, and no other getCached changes the cache.
C17_CacheNeverServesExpired ==
  \A k \in Keys :
    LET live == latest[k] # NoSet /\ clock <= latest[k].time + latest[k].ttl
    IN  /\ getCached(k).ret = IF live THEN latest[k].data ELSE "null"
        /\ getCached(k).cache =
             IF cache[k] # NoEntry /\ ~live THEN [cache EXCEPT ![k] = NoEntry] ELSE cache

\* an entry set with the default ttl is in the cache after its expiry
C17_Witness ==
  \E k \in Keys :
    /\ cache[k] # NoEntry /\ latest[k] # NoSet /\ latest[k].ttl = CACHE_TTL
    /\ clock > latest[k].time + CACHE_TTL
    /\ getCached(k).ret = "null" /\ getCached(k).cache[k] = NoEntry

----------------------------------------------------------------------------
(* utils.js: the session monitor of the page *)

\* localStorage.getItem('user') !== null
isAuthenticated == user # NoUser

\* the id setInterval returns
NewTimerId == CHOOSE i \in 1..MaxTimers : i \notin intervals

\* a startSessionMonitor with no check of sessionCheckInterval
startSessionMonitorUnguarded ==
  /\ Cardinality(intervals) < MaxTimers
  /\ intervals' = intervals \cup {NewTimerId}
  /\ sessionCheckInterval' = NewTimerId

startSessionMonitor ==
  IF sessionCheckInterval # 0
  THEN UNCHANGED <<sessionCheckInterval, intervals>>
  ELSE /\ Cardinality(intervals) < MaxTimers
       /\ intervals' = intervals \cup {NewTimerId}
       /\ sessionCheckInterval' = NewTimerId

stopSessionMonitor ==
  IF sessionCheckInterval # 0
  THEN /\ intervals' = intervals \ {sessionCheckInterval}
       /\ sessionCheckInterval' = 0
  ELSE UNCHANGED <<sessionCheckInterval, intervals>>

\* what handleSessionExpired does, in order
ExpiryEffects ==
  << <<"stopSessionMonitor", "ok">>, <<"localStorage.removeItem", "ok">>,
     <<"clearCache", "ok">>, <<"showToast", "ok">>, <<"setTimeout", "ok">> >>

\* a handleSessionExpired that leaves the cache as it is
handleSessionExpiredKeepingCache(c) ==
  /\ redirects < MaxRedirects
  /\ stopSessionMonitor
  /\ user' = NoUser
  /\ redirects' = redirects + 1
  /\ expired' = (expired \/ c.op = "sessionPoll")
  /\ last' = [c EXCEPT !.calls = c.calls \o ExpiryEffects]
  /\ UNCHANGED <<session, users, authUsers, quizVars, progVars, courseVars,
                 notifications, clc, cacheVars>>

\* handleSessionExpired(), called in the invocation c
handleSessionExpired(c) ==
  /\ redirects < MaxRedirects
  /\ stopSessionMonitor
  /\ user' = NoUser
  /\ cache' = clearCache(<<>>)
  /\ latest' = [k \in Keys |-> IF k \in Cleared(<<>>) THEN NoSet ELSE latest[k]]
  /\ redirects' = redirects + 1
  /\ expired' = (expired \/ c.op = "sessionPoll")
  /\ last' = [c EXCEPT !.calls = c.calls \o ExpiryEffects]
  /\ UNCHANGED <<session, users, authUsers, quizVars, progVars, courseVars,
                 notifications, clc, clock>>

\* the callback of the monitor's timer from its await of getSession on; near
\* says whether the session's expiry is less than
\* CONFIG.SESSION_WARNING_BEFORE_EXPIRY away
sessionPoll(oSession, near, oRefresh) ==
  LET c == [Call("sessionPoll") EXCEPT !.user = user]
      sesOut == IF oSession = "ok" /\ session = "none" THEN "nosession" ELSE oSession
      c1 == << <<"auth.getSession", sesOut>> >>
  IN  IF sesOut \in {"err", "nosession"}
      THEN /\ NotIssued({oRefresh}) /\ ~near
           /\ handleSessionExpired([c EXCEPT !.calls = c1])
      ELSE /\ UNCHANGED <<authVars, quizVars, progVars, courseVars, notifications, clc,
                          cacheVars, sessionCheckInterval, intervals, redirects, expired>>
           /\ IF sesOut = "throw"
              THEN /\ NotIssued({oRefresh}) /\ ~near
                   /\ last' = [c EXCEPT !.calls = c1]
              ELSE IF near
              THEN last' = [c EXCEPT !.calls = Append(c1, <<"auth.refreshSession", oRefresh>>)]
              ELSE /\ NotIssued({oRefresh})
                   /\ last' = [c EXCEPT !.calls = c1]

StartSessionMonitor ==
  /\ Idle
  /\ startSessionMonitor
  /\ last' = [Call("startSessionMonitor") EXCEPT
                !.was = IF intervals # {} THEN "active" ELSE "none"]
  /\ UNCHANGED <<authVars, quizVars, progVars, courseVars, notifications, nOps, clc,
                 cacheVars, polls, redirects, expired>>

StopSessionMonitor ==
  /\ Idle
  /\ stopSessionMonitor
  /\ last' = [Call("stopSessionMonitor") EXCEPT
                !.was = IF intervals # {} THEN "active" ELSE "none"]
  /\ UNCHANGED <<authVars, quizVars, progVars, courseVars, notifications, nOps, clc,
                 cacheVars, polls, redirects, expired>>

HandleSessionExpired ==
  /\ Idle
  /\ handleSessionExpired([Call("handleSessionExpired") EXCEPT !.user = user])
  /\ UNCHANGED <<nOps, polls>>

\* the timer fires: its callback runs to its await
PollFire ==
  /\ intervals # {}
  /\ polls < MaxPolls
  /\ polls' = polls + 1
  /\ UNCHANGED <<authVars, quizVars, progVars, courseVars, notifications, nOps, last,
                 clc, cacheVars, sessionCheckInterval, intervals, redirects, expired>>

PollResume ==
  /\ Idle
  /\ polls > 0
  /\ polls' = polls - 1
  /\ UNCHANGED nOps
  /\ \E oSession, oRefresh \in Outcomes, near \in BOOLEAN :
       sessionPoll(oSession, near, oRefresh)

\* the scheduled redirect fires: the page is left for login.html, and its
\* cache, timers and callbacks go with it
Redirect ==
  /\ redirects > 0
  /\ redirects' = 0
  /\ cache' = [k \in Keys |-> NoEntry]
  /\ latest' = [k \in Keys |-> NoSet]
  /\ sessionCheckInterval' = 0
  /\ intervals' = {}
  /\ polls' = 0
  /\ UNCHANGED <<authVars, quizVars, progVars, courseVars, notifications, nOps, last,
                 clc, clock, expired>>

\* the backend's session runs out
SessionExpires ==
  /\ session # "none"
  /\ session' = "none"
  /\ UNCHANGED <<user, users, authUsers, quizVars, progVars, courseVars, notifications,
                 nOps, last, clc, pageVars>>

LoginPage ==
  /\ Idle
  /\ \E cred \in Accounts, oSignIn \in {"ok", "err"} : login(cred, oSignIn, "ok", "ok", "ok")
  /\ expired' = (expired /\ last'.ret # "user")
  /\ UNCHANGED <<nOps, clc, cacheVars, monitorVars>>

CheckAuthSession ==
  /\ Idle /\ UNCHANGED <<nOps, clc, pageVars>>
  /\ \E oSession, oSelect \in Outcomes : checkAuthSession(oSession, oSelect)

SetCachePage ==
  /\ \E key \in Keys :
       /\ cache' = setCache(key, "d1", <<>>)
       /\ latest' = [latest EXCEPT ![key] =
                       [data |-> "d1", time |-> clock, ttl |-> CACHE_TTL]]
  /\ UNCHANGED <<authVars, quizVars, progVars, courseVars, notifications, nOps, last,
                 clc, clock, monitorVars, expired>>

NextSession ==
  \/ Continue
  \/ LoginPage
  \/ Logout
  \/ CheckAuthSession
  \/ SessionExpires
  \/ StartSessionMonitor
  \/ StopSessionMonitor
  \/ HandleSessionExpired
  \/ PollFire
  \/ PollResume
  \/ Redirect
  \/ SetCachePage

SpecSession == Init /\ [][NextSession]_vars

\* C16: at most one interval timer of the session monitor is active; a
\* startSessionMonitor while a timer is active leaves the timers as they are;
\* after a startSessionMonitor one timer is active, and after a
\* stopSessionMonitor or a handleSessionExpired none is.
C16_OneSessionTimer ==
  [][ /\ Cardinality(intervals') <= 1
      /\ (Returned("startSessionMonitor") /\ intervals # {}) => UNCHANGED intervals
      /\ Returned("startSessionMonitor") => Cardinality(intervals') = 1
      /\ Returned("stopSessionMonitor") => intervals' = {}
      /\ Returned("handleSessionExpired") => intervals' = {} ]_vars

\* startSessionMonitor returned when a timer was active, and one is
C16_Witness ==
  /\ last.op = "startSessionMonitor" /\ last.was = "active"
  /\ Cardinality(intervals) = 1 /\ sessionCheckInterval \in intervals

\* the invocation issued the call, and where
Pos(call, name) == CHOOSE i \in 1..Len(call.calls) : call.calls[i][1] = name

\* a session poll that finds no session or an error runs handleSessionExpired:
\* the monitor is stopped, the cached user removed and the cache cleared, each
\* before the redirect is scheduled
ExpiryHandled ==
  (Returned("sessionPoll") /\ last'.calls[1][2] \in {"err", "nosession"})
  => /\ Issued(last', {"setTimeout"}) /\ redirects' = redirects + 1
     /\ \A name \in {"stopSessionMonitor", "localStorage.removeItem", "clearCache"} :
          Issued(last', {name}) /\ Pos(last', name) < Pos(last', "setTimeout")
     /\ sessionCheckInterval' = 0 /\ intervals' = {}
     /\ ~isAuthenticated'
     /\ \A k \in Keys : cache'[k] = NoEntry /\ latest'[k] = NoSet

\* getCached returns null for every key while no setCache is on record
NullUntilSetCache ==
  (\A k \in Keys : latest[k] = NoSet) => \A k \in Keys : getCached(k).ret = "null"

----------------------------------------------------------------------------
(* Course content: createLesson invoked from several tabs at once *)

\* what the lesson form can hold: title and content, or no title
LessonForms == {[title |-> "t", content |-> "c"], [title |-> "", content |-> "c"]}

\* the ids the database gives to the lessons createLesson inserts
CreatedIds == (MaxLessons + MaxOtherLessons + 1) .. (MaxLessons + MaxOtherLessons + MaxCreated)

Created == { l \in lessons : l.id \in CreatedIds }

NewLessonId == CHOOSE n \in CreatedIds :
                 /\ \A l \in lessons : l.id # n
                 /\ \A m \in CreatedIds : m < n => \E l \in lessons : l.id = m

\* .order('order_index', { ascending: false }).limit(1) over the module's rows
TopOrder(moduleId) ==
  CHOOSE n \in { l.order_index : l \in ModuleLessons(moduleId) } :
    \A l \in ModuleLessons(moduleId) : l.order_index <= n

\* createLesson up to the await of its read of the highest order_index.  slot
\* names the invocation (a tab of the browser).
createLessonRead(u, moduleId, lessonData, slot, oCount) ==
  LET c == [Call("createLesson") EXCEPT !.user = u, !.id = moduleId]
      read == <<"lessons.select", oCount>>
      fail(calls, alert, unused) ==
        /\ NotIssued(unused)
        /\ last' = [c EXCEPT !.ret = "null", !.calls = calls, !.alert = alert]
        /\ UNCHANGED clc
  IN  /\ UNCHANGED <<authVars, quizVars, progVars, courseVars, notifications>>
      /\ \A i \in clc : i.slot # slot
      /\ IF ~IsStaff(u)
         THEN fail(<<>>, "You do not have permission to create lessons", {oCount})
         ELSE IF lessonData.title = "" \/ lessonData.content = ""
         THEN fail(<<>>, "Lesson title and content are required", {oCount})
         ELSE IF oCount = "err" THEN fail(<<read>>, "", {})
         ELSE IF oCount = "throw"
         THEN fail(<<read>>, "Failed to create lesson. Please try again.", {})
         ELSE /\ clc' = clc \cup
                   {[slot |-> slot, user |-> u, moduleId |-> moduleId,
                     nextOrder |-> IF ModuleLessons(moduleId) # {}
                                   THEN TopOrder(moduleId) + 1 ELSE 1]}
              /\ UNCHANGED last

\* createLesson from its insert on, for the invocation inv in flight
createLessonInsert(inv, oInsert) ==
  LET c == [Call("createLesson") EXCEPT !.user = inv.user, !.id = inv.moduleId]
      read == <<"lessons.select", "ok">>
      \* module_id references modules
      insOut == IF oInsert = "ok" /\ inv.moduleId \notin modules THEN "err" ELSE oInsert
      done(ret, alert) ==
        last' = [c EXCEPT !.ret = ret, !.alert = alert,
                          !.calls = <<read, <<"lessons.insert", insOut>> >>]
  IN  /\ UNCHANGED <<authVars, quizVars, progVars, modules, notifications>>
      /\ inv \in clc
      /\ clc' = clc \ {inv}
      /\ IF insOut = "ok"
         THEN /\ Cardinality(Created) < MaxCreated
              /\ lessons' = lessons \cup
                   {[id |-> NewLessonId, module_id |-> inv.moduleId,
                     order_index |-> inv.nextOrder]}
              /\ last' = [c EXCEPT !.ret = "data", !.lesson = NewLessonId,
                                   !.calls = <<read, <<"lessons.insert", "ok">> >>]
         ELSE /\ UNCHANGED lessons
              /\ IF insOut = "err" THEN done("null", "Failed to create lesson: ")
                 ELSE done("null", "Failed to create lesson. Please try again.")

\* the course as the page finds it: its module has its lessons, or none yet
InitLessons ==
  /\ user = NoUser
  /\ session = "none"
  /\ users = [id \in Ids |-> IF id \in Accounts \ {"s2"} THEN SeedRole(id) ELSE "norow"]
  /\ authUsers = [id \in Ids |-> SeedRole(id)]
  /\ quiz_submissions = {}
  /\ storage = {}
  /\ lesson_progress = {}
  /\ mlc = {}
  /\ modules = Modules
  /\ \E seeded \in SUBSET Lessons :
       lessons = {[id |-> l, module_id |-> "M1", order_index |-> l] : l \in seeded}
  /\ notifications = {}
  /\ nOps = 0
  /\ last = Call("none")
  /\ InitPage

CreateLessonRead ==
  /\ Idle /\ UNCHANGED <<nOps, pageVars>>
  /\ \E moduleId \in Modules, lessonData \in LessonForms, slot \in 1..MaxInFlight,
        oCount \in Outcomes :
       createLessonRead(user, moduleId, lessonData, slot, oCount)

CreateLessonInsert ==
  /\ Idle /\ UNCHANGED <<nOps, pageVars>>
  /\ \E inv \in clc, oInsert \in Outcomes : createLessonInsert(inv, oInsert)

NextLessons ==
  \/ Continue
  \/ Login
  \/ Logout
  \/ CreateLessonRead
  \/ CreateLessonInsert

SpecLessons == InitLessons /\ [][NextLessons]_vars

\* C20: under any interleaving of createLesson calls for the same module, the
\* lessons created receive pairwise distinct order_index values.
C20_CreatedOrderDistinct ==
  \A a, b \in Created :
    (a.module_id = b.module_id /\ a.order_index = b.order_index) => a = b

====
